---- MODULE Spec2Model ----
(***************************************************************************)
(* A model of echo360's lecture pipeline (src/echo360/videos.py):          *)
(* EchoCloudVideo resolves a stream location (_loop_find_m3u8_url),        *)
(* download/download_single fetch it and combine_audio_video remuxes it.   *)
(* Around it: the lecture collections and EchoCloudCourse.get_videos       *)
(* (src/echo360/course.py), the download of the browser driver            *)
(* (src/echo360/binary_downloader) and the transcript converter            *)
(* (src/vtt_to_text.py).                                                   *)
(*                                                                         *)
(* Text (URLs) is a sequence of one-character strings, so that sorting,    *)
(* suffix tests and URL parsing are computed as Python computes them.      *)
(* File paths are strings built by concatenation.                          *)
(***************************************************************************)
EXTENDS Integers, Sequences, FiniteSets, TLC

(* ------------------------------ bounds --------------------------------- *)

\* most URLs embedded in one rendered page (resolution specification)
MaxPage == 3
\* longest primaryFiles list of the lecture metadata
MaxFiles == 2
\* longest manifests list of the lecture metadata
\* how many times one lecture object is built from the same inputs
MaxConstruct == 2
\* how many times download() is run on one lecture object
MaxRuns == 2
\* how many lectures a course has
MaxLectures == 2

(* ------------------------------- text ---------------------------------- *)

\* the characters used, in code-point order (Python compares str by code point)
AsciiOrder ==
  << "-", ".", "/", "0", "1", "2", "3", "4", "5", "6", "7", "8", "9", ":", "_",
     "a", "c", "d", "e", "h", "m", "n", "o", "p", "s", "t", "u", "v", "z" >>

Ord(c) == CHOOSE i \in 1..Len(AsciiOrder) : AsciiOrder[i] = c

\* a < b for Python str
StrLess(a, b) ==
  \E k \in 1..(Len(b)) :
     /\ \A j \in 1..(k-1) : j <= Len(a) /\ a[j] = b[j]
     /\ \/ k = Len(a) + 1
        \/ k <= Len(a) /\ Ord(a[k]) < Ord(b[k])

\* str.endswith
EndsWith(s, suf) ==
  /\ Len(suf) <= Len(s)
  /\ SubSeq(s, Len(s) - Len(suf) + 1, Len(s)) = suf

\* the index at which pat first occurs in s at or after position from; 0 if none
Find(s, pat, from) ==
  LET hits == { i \in from..(Len(s) - Len(pat) + 1) : SubSeq(s, i, i + Len(pat) - 1) = pat }
  IN  IF hits = {} THEN 0 ELSE CHOOSE i \in hits : \A j \in hits : i <= j

Range(s) == { s[i] : i \in 1..Len(s) }

\* list(reversed(s))
Reverse(s) == [ i \in 1..Len(s) |-> s[Len(s) + 1 - i] ]

\* s[:n]
Take(s, n) == SubSeq(s, 1, IF Len(s) < n THEN Len(s) ELSE n)

\* sorted(S) for a set of str: ascending code-point order
RECURSIVE Sorted(_)
Sorted(S) ==
  IF S = {} THEN << >>
  ELSE LET m == CHOOSE x \in S : \A y \in S : y = x \/ StrLess(x, y)
       IN  << m >> \o Sorted(S \ {m})

\* every order in which the elements of the set S can be enumerated
Orders(S) ==
  { o \in [1..Cardinality(S) -> S] : \A i, j \in 1..Cardinality(S) : o[i] = o[j] => i = j }

\* sequences over S of length at most n
SeqsUpTo(S, n) == UNION { [1..k -> S] : k \in 0..n }

(* ------------------------------- URLs ---------------------------------- *)

Https == << "h", "t", "t", "p", "s", ":", "/", "/" >>
DotMp4 == << ".", "m", "p", "4" >>
DotM3u8 == << ".", "m", "3", "u", "8" >>
Mp4 == << "m", "p", "4" >>
M3u8 == << "m", "3", "u", "8" >>
AvM3u8 == << "a", "v", ".", "m", "3", "u", "8" >>

\* self.hostname, "https://h"
Hostname == Https \o << "h" >>

\* direct-file URLs that a rendered page can embed
Url_a_sd1 == Https \o << "h", "/", "a", ".", "s", "d", "1" >> \o DotMp4
Url_a_hd2 == Https \o << "h", "/", "a", ".", "h", "d", "2" >> \o DotMp4
Url_a_hd1 == Https \o << "h", "/", "a", ".", "h", "d", "1" >> \o DotMp4
\* manifest URLs that a rendered page can embed
Url_s1_av == Https \o << "h", "/", "s", "1", "_", "a", "v" >> \o DotM3u8
Url_s2_av == Https \o << "h", "/", "s", "2", "_", "a", "v" >> \o DotM3u8
Url_s1_a  == Https \o << "h", "/", "s", "1", "_", "a" >> \o DotM3u8

PageMp4Urls == { Url_a_sd1, Url_a_hd2, Url_a_hd1 }
PageM3u8Urls == { Url_s1_av, Url_s2_av, Url_s1_a }
PageUrls == PageMp4Urls \cup PageM3u8Urls

\* s3Url values of the metadata's primaryFiles
S3_sd == Https \o << "s", "3", "/", "s", "d" >> \o DotMp4
S3_hd == Https \o << "s", "3", "/", "h", "d" >> \o DotMp4
S3Urls == { S3_sd, S3_hd }

\* manifest uris of the metadata, hosted on an offload domain
Man_s1 == Https \o << "z", "/", "p", "/", "s", "1", "_", "a", "v" >> \o DotM3u8
Man_s2 == Https \o << "z", "/", "p", "/", "s", "2", "_", "a", "v" >> \o DotM3u8
ManifestUris == { Man_s1, Man_s2 }

\* a manifest uri with another scheme and host and with a query
Man_q ==
  << "h", "t", "t", "p", ":", "/", "/", "y", "/", "q", "/", "s", "3", "_", "a", "v" >>
    \o DotM3u8 \o << "?", "t", "=", "1" >>

\* urlparse(url).scheme, .netloc, .path for scheme://netloc/path
UrlScheme(u) == SubSeq(u, 1, Find(u, << ":" >>, 1) - 1)

UrlNetloc(u) ==
  LET a == Find(u, << ":", "/", "/" >>, 1) + 3
      b == Find(u, << "/" >>, a)
  IN  SubSeq(u, a, IF b = 0 THEN Len(u) ELSE b - 1)

\* the first place from index from on where a query or a fragment begins
QueryStart(u, from) ==
  LET S == { i \in from..Len(u) : u[i] \in { "?", "#" } }
  IN  IF S = {} THEN Len(u) + 1 ELSE CHOOSE i \in S : \A j \in S : i <= j

UrlPath(u) ==
  LET a == Find(u, << ":", "/", "/" >>, 1) + 3
      b == Find(u, << "/" >>, a)
  IN  IF b = 0 THEN << >> ELSE SubSeq(u, b, QueryStart(u, b) - 1)

\* "{}://content.{}{}".format(scheme, new_hostname, path)
RewriteHost(u, new_hostname) ==
  UrlScheme(u) \o << ":", "/", "/", "c", "o", "n", "t", "e", "n", "t", "." >>
     \o new_hostname \o UrlPath(u)

(* ------------------- EchoCloudVideo._loop_find_m3u8_url ----------------- *)

\* re.findall('https://[^,"]*?[.]<suffix>', page_source): the page is the set of
\* its embedded text items (none holds a comma or a quote); the non-greedy
\* pattern matches from "https://" up to the first ".<suffix>"
RegexMatch(item, suffix) ==
  LET a == Find(item, Https, 1)
      e == IF a = 0 THEN 0 ELSE Find(item, << "." >> \o suffix, a + Len(Https))
  IN  IF e = 0 THEN << >> ELSE SubSeq(item, a, e + Len(suffix))

\* brute_force_get_url(suffix): the set of matches when the page is read, or
\* the exception that the page load or the retry loop lets through
BruteForceGetUrl(page, suffix, outcome) ==
  IF outcome = "raise"
  THEN [raised |-> TRUE, urls |-> {}]
  ELSE [raised |-> FALSE,
        urls |-> { RegexMatch(it, suffix) : it \in { x \in page : RegexMatch(x, suffix) # << >> } }]

\* mutant of BruteForceGetMp4Url: sorted(urls, reverse=True)[:2]
BruteForceGetMp4Url_Reverse(page, outcome) ==
  LET r == BruteForceGetUrl(page, Mp4, outcome)
  IN  IF r.raised \/ r.urls = {}
      THEN [raised |-> TRUE, val |-> << >>]
      ELSE [raised |-> FALSE, val |-> Take(Reverse(Sorted(r.urls)), 2)]

\* brute_force_get_mp4_url(): sorted(urls)[:2], an exception when none is found
BruteForceGetMp4Url(page, outcome) ==
  LET r == BruteForceGetUrl(page, Mp4, outcome)
  IN  IF r.raised \/ r.urls = {}
      THEN [raised |-> TRUE, val |-> << >>]
      ELSE [raised |-> FALSE, val |-> Take(Sorted(r.urls), 2)]

\* mutant of FromJsonMp4: next(iter(urls))
FromJsonMp4_First(vj) ==
  IF ~vj.primaryFiles.present \/ Len(vj.primaryFiles.s3Urls) = 0
  THEN [raised |-> TRUE, val |-> << >>]
  ELSE [raised |-> FALSE, val |-> << vj.primaryFiles.s3Urls[1] >>]

\* from_json_mp4(): next(reversed(urls)), ValueError on an empty list,
\* KeyError when the metadata has no primaryFiles
FromJsonMp4(vj) ==
  IF ~vj.primaryFiles.present \/ Len(vj.primaryFiles.s3Urls) = 0
  THEN [raised |-> TRUE, val |-> << >>]
  ELSE [raised |-> FALSE, val |-> << vj.primaryFiles.s3Urls[Len(vj.primaryFiles.s3Urls)] >>]

\* mutant of FromJsonM3u8: the rewritten uris are collected in reverse
FromJsonM3u8_Reversed(vj, hostname) ==
  IF ~vj.hasVideo \/ ~vj.hasAvailableVideo
  THEN [kind |-> "false", val |-> << >>]
  ELSE IF ~vj.manifests.present
  THEN [kind |-> "raised", val |-> << >>]
  ELSE [kind |-> "list",
        val |-> Reverse([ i \in 1..Len(vj.manifests.uris) |->
                            RewriteHost(vj.manifests.uris[i], UrlNetloc(hostname)) ])]

\* from_json_m3u8(): False without an available video, KeyError without
\* manifests, else the manifest uris with their host rewritten
FromJsonM3u8(vj, hostname) ==
  IF ~vj.hasVideo \/ ~vj.hasAvailableVideo
  THEN [kind |-> "false", val |-> << >>]
  ELSE IF ~vj.manifests.present
  THEN [kind |-> "raised", val |-> << >>]
  ELSE [kind |-> "list",
        val |-> [ i \in 1..Len(vj.manifests.uris) |->
                    RewriteHost(vj.manifests.uris[i], UrlNetloc(hostname)) ]]

\* [url for url in m3u8urls if url.endswith("av.m3u8")]
FilterAv(m3u8urls) == SelectSeq(m3u8urls, LAMBDA u : EndsWith(u, AvM3u8))

\* lines 759-779: keep the audio+video manifests, reverse, keep two
PickManifests(m3u8urls) ==
  IF Len(FilterAv(m3u8urls)) = 0
  THEN [kind |-> "false", val |-> << >>]
  ELSE [kind |-> "list", val |-> Take(Reverse(FilterAv(m3u8urls)), 2)]

\* mutant of LoopFindM3u8Url: the page is scanned for files before the
\* metadata's direct files are looked at
LoopFindM3u8Url_PageFirst(vj, hostname, page, read3, read4, order) ==
  LET s1 == FromJsonMp4(vj)
      s2 == FromJsonM3u8(vj, hostname)
      s3 == BruteForceGetMp4Url(page, read3)
      s4 == BruteForceGetUrl(page, M3u8, read4)
  IN  IF ~s3.raised
      THEN [kind |-> "list", val |-> s3.val, tried |-> << 3 >>, won |-> 3,
            s2 |-> [kind |-> "notrun", val |-> << >>]]
      ELSE IF ~s1.raised
      THEN [kind |-> "str", val |-> s1.val, tried |-> << 3, 1 >>, won |-> 1,
            s2 |-> [kind |-> "notrun", val |-> << >>]]
      ELSE IF s4.raised
      THEN [kind |-> "raised", val |-> << >>, tried |-> << 3, 1, 2, 4 >>, won |-> 0, s2 |-> s2]
      ELSE LET r == PickManifests(order)
           IN  [kind |-> r.kind, val |-> r.val, tried |-> << 3, 1, 2, 4 >>,
                won |-> IF r.kind = "list" THEN 4 ELSE 0, s2 |-> s2]

\* mutant of LoopFindM3u8Url: no handler around the page-scan file strategy
LoopFindM3u8Url_Escapes(vj, hostname, page, read3, read4, order) ==
  LET s1 == FromJsonMp4(vj)
      s2 == FromJsonM3u8(vj, hostname)
      s3 == BruteForceGetMp4Url(page, read3)
      s4 == BruteForceGetUrl(page, M3u8, read4)
  IN  IF ~s1.raised
      THEN [kind |-> "str", val |-> s1.val, tried |-> << 1 >>, won |-> 1,
            s2 |-> [kind |-> "notrun", val |-> << >>]]
      ELSE IF ~s3.raised
      THEN [kind |-> "list", val |-> s3.val, tried |-> << 1, 2, 3 >>, won |-> 3, s2 |-> s2]
      ELSE [kind |-> "raised", val |-> << >>, tried |-> << 1, 2, 3 >>, won |-> 0, s2 |-> s2]

\* The body of _loop_find_m3u8_url. read3 and read4 are the outcomes of the two
\* page reads, order is the order in which Python iterates the set that
\* brute_force_get_url("m3u8") returns. The result records what was returned
\* (kind, val), the strategies that ran (tried), the one whose value was
\* returned (won, 0 if none) and what the metadata-manifest strategy gave (s2).
LoopFindM3u8Url(vj, hostname, page, read3, read4, order) ==
  LET s1 == FromJsonMp4(vj)
      s2 == FromJsonM3u8(vj, hostname)
      s3 == BruteForceGetMp4Url(page, read3)
      s4 == BruteForceGetUrl(page, M3u8, read4)
  IN  IF ~s1.raised
      THEN [kind |-> "str", val |-> s1.val, tried |-> << 1 >>, won |-> 1,
            s2 |-> [kind |-> "notrun", val |-> << >>]]
      ELSE IF ~s3.raised
      THEN [kind |-> "list", val |-> s3.val, tried |-> << 1, 2, 3 >>, won |-> 3, s2 |-> s2]
      ELSE IF s4.raised
      THEN [kind |-> "raised", val |-> << >>, tried |-> << 1, 2, 3, 4 >>, won |-> 0, s2 |-> s2]
      ELSE LET r == PickManifests(order)
           IN  [kind |-> r.kind, val |-> r.val, tried |-> << 1, 2, 3, 4 >>,
                won |-> IF r.kind = "list" THEN 4 ELSE 0, s2 |-> s2]

(* ------------------------------- state --------------------------------- *)

VARIABLES
  video_json,                  \* self.video_json: the lecture metadata
  page_source,                 \* the rendered page: the text items it embeds
  download_alternative_feeds,  \* self.download_alternative_feeds
  download_subtitles,          \* self.download_subtitles
  filename,                    \* the (sanitized) file name download() is given
  manifests_served,            \* the manifest texts the server may answer with
  status,                      \* "new", "built", or "failed" (__init__ raised)
  built,                       \* how often the lecture object was built
  url,                         \* self._url
  found,                       \* what the last _loop_find_m3u8_url did
  resolved,                    \* every value resolution returned for these inputs
  fs,                          \* the files that exist
  partial,                     \* those of them whose content is incomplete
  pc,                          \* "idle", or "loop" inside download()
  run,                         \* how often download() was started
  urls,                        \* download(): the urls its loop goes through
  counter,                     \* download(): calls of download_single so far
  final_result,                \* download(): "true", "false" or "raised"
  netlog,                      \* the network requests of the run in progress or
                               \* just ended
  muxlog,                      \* the mux tool invocations of that run
  last,                        \* the last call of download_single / combine
  hist,                        \* the files at the start of this run, whether the
                               \* run directly follows another one (inARow),
                               \* whether files changed since the last run ended
  course,                      \* the collection being built: its class, its
                               \* skip_video_on_error, the lectures' json and pages
  cpc,                         \* where the collection's constructor is
  ci,                          \* how many lectures' objects it has begun to build
  wait,                        \* the page-read retry loop in progress or just ended
  scan3,                       \* how the page-scan file strategy's read ended
  videos,                      \* self._videos
  printed,                     \* what was printed, with the lecture it names (0: none)
  fetched,                     \* the lectures whose download() was run
  videos_tree,                 \* get_videos: self._course_data["data"]
  gpc,                         \* where EchoCloudCourse.get_videos is
  queue,                       \* get_videos: the folders still to visit
  folder,                      \* get_videos: the folder being visited, its path
  ii,                          \* get_videos: how many of its items were visited
  lecture_count,               \* self._lecture_count
  processed_lectures,          \* self._processed_lectures
  skipped_lectures,            \* self._skipped_lectures
  processed_lecture_dates,     \* self._processed_lecture_dates
  processed_videos,            \* get_videos: processed_videos
  found_future_lecture,        \* get_videos: found_future_lecture
  gfilename,                   \* get_videos: filename, << >> while unbound
  tfs,                         \* the transcript files that exist
  glog,                        \* what get_videos did with each lesson it visited
  grun,                        \* how often get_videos was run (a new object each time)
  jar,                         \* self._driver.get_cookies(): the version of the
                               \* rendering session's cookie jar
  session_cookies,             \* the version download() loaded into its session
  cookielog,                   \* the cookie reads and the transfers of the run in
                               \* progress, each with the version of its cookies
  bin_os,                      \* BinaryDownloader: what get_os_suffix() gives
  disk,                        \* the binary at get_bin(), the archive in the working
                               \* directory, the directory bin/temp
  disk0,                       \* the disk when download() was called
  bpc,                         \* where BinaryDownloader.download is
  blog,                        \* its network and file operations in this call
  brun,                        \* how many times it was called
  vtt_lines,                   \* convert_vtt_to_text: the lines of the .vtt file
  vtt_out,                     \* the paragraphs it made and the text it wrote
  vpc                          \* whether it has run

vars ==
  << video_json, page_source, download_alternative_feeds, download_subtitles,
     filename, manifests_served, status, built, url, found, resolved, fs, partial, pc, run, urls,
     counter,
     final_result, netlog, muxlog, last, hist,
     course, cpc, ci, wait, scan3, videos, printed, fetched,
     videos_tree, gpc, queue, folder, ii, lecture_count, processed_lectures,
     skipped_lectures, processed_lecture_dates, processed_videos,
     found_future_lecture, gfilename, tfs, glog, grun,
     jar, session_cookies, cookielog,
     bin_os, disk, disk0, bpc, blog, brun,
     vtt_lines, vtt_out, vpc >>

\* the state of BinaryDownloader.download
binaryState == << bin_os, disk, disk0, bpc, blog, brun >>

\* the state of vtt_to_text.convert_vtt_to_text
vttState == << vtt_lines, vtt_out, vpc >>

inputs ==
  << video_json, page_source, download_alternative_feeds, download_subtitles, filename,
     manifests_served, binaryState, vttState >>

downloadState ==
  << fs, partial, pc, run, urls, counter, final_result, netlog, muxlog, last, hist,
     jar, session_cookies, cookielog >>

courseState == << course, cpc, ci, wait, scan3, videos, printed, fetched >>

\* the state of EchoCloudCourse.get_videos
passState ==
  << videos_tree, gpc, queue, folder, ii, lecture_count, processed_lectures,
     skipped_lectures, processed_lecture_dates, processed_videos,
     found_future_lecture, gfilename, tfs, glog, grun >>

\* the state of one lecture object and its pipeline
lectureState ==
  << inputs, status, built, url, found, resolved, downloadState >>

(* ------------------- BinaryDownloader / ChromedriverDownloader ---------- *)

\* how many times download() is called
MaxBinaryRuns == 2

\* str.startswith
StartsWith(t, pre) == Len(pre) <= Len(t) /\ SubSeq(t, 1, Len(pre)) = pre

\* self._name
Chromedriver == << "c", "h", "r", "o", "m", "e", "d", "r", "i", "v", "e", "r" >>
DotZip == << ".", "z", "i", "p" >>
DotExe == << ".", "e", "x", "e" >>

\* the values of get_os_suffix()
Linux64 == << "l", "i", "n", "u", "x", "6", "4" >>
Win32 == << "w", "i", "n", "3", "2" >>
MacArm64 == << "m", "a", "c", "_", "a", "r", "m", "6", "4" >>
OsSuffixes == { Linux64, Win32, MacArm64 }

\* get_bin(): the name of the binary in the bin directory
GetBin(os) == Chromedriver \o (IF Find(os, << "w", "i", "n" >>, 1) # 0 THEN DotExe ELSE << >>)

\* get_download_link(): the name the archive is saved under
ArchiveName(os) == Chromedriver \o << "-" >> \o os \o DotZip

\* what the server may send: an archive of files (a notice and the driver, or
\* the notice alone) or bytes that are no zip archive
Notice == << "L", "I", "C", "E", "N", "S", "E", "." >> \o Chromedriver
NoFile == [there |-> FALSE, zip |-> FALSE, names |-> << >>]
Zip(names) == [there |-> TRUE, zip |-> TRUE, names |-> names]
BadZip == [there |-> TRUE, zip |-> FALSE, names |-> << >>]
Archives(os) == { Zip(<< Notice, GetBin(os) >>), Zip(<< Notice >>), BadZip }

\* a directory and the names of its files
NoDir == [there |-> FALSE, names |-> << >>]
Dir(names) == [there |-> TRUE, names |-> names]

\* disk.bin: "none", "file" or "exec" (mode 0o755), the file at get_bin();
\* disk.archive: the archive in the working directory; disk.temp: bin/temp
Disk(bin, archive, temp) == [bin |-> bin, archive |-> archive, temp |-> temp]

\* lines 72-76: bin/temp is removed if it is there, made, and the archive is
\* extracted into it
ExtractAll(d) == [d EXCEPT !.temp = Dir(d.archive.names)]

\* lines 79-84: every file whose name starts with "chromedriver" is copied to
\* get_bin()
CopyDriver(d) ==
  IF \E i \in 1..Len(d.temp.names) : StartsWith(d.temp.names[i], Chromedriver)
  THEN [d EXCEPT !.bin = "file"]
  ELSE d

\* line 87: shutil.rmtree(temp_dir)
RemoveTemp(d) == [d EXCEPT !.temp = NoDir]

\* an os.remove that leaves the archive
RemoveArchive_Keeps(d) == d

\* line 93: os.remove(filename)
RemoveArchive(d) == [d EXCEPT !.archive = NoFile]

\* line 94: os.chmod(bin_path, 0o755), which raises if there is no such file
Chmod(d) ==
  IF d.bin = "none" THEN [raised |-> TRUE, disk |-> d]
  ELSE [raised |-> FALSE, disk |-> [d EXCEPT !.bin = "exec"]]

BinaryInit(OS, DISKS) ==
  /\ bin_os \in OS
  /\ disk \in DISKS
  /\ disk0 = disk
  /\ bpc = "idle"
  /\ blog = << >>
  /\ brun = 0

\* lines 52-56: download() is called; the binary is looked for
BinaryBegin ==
  /\ bpc \in { "idle", "returned", "raised" } /\ brun < MaxBinaryRuns
  /\ brun' = brun + 1
  /\ disk0' = disk
  /\ blog' = << >>
  /\ bpc' = IF disk.bin # "none" THEN "returned" ELSE "wget"
  /\ UNCHANGED << video_json, page_source, download_alternative_feeds, download_subtitles,
                  filename, manifests_served, status, built, url, found, resolved,
                  downloadState, courseState, passState, bin_os, disk, vttState >>

\* line 66: wget.download(download_link, filename) saves the archive under
\* its name in the working directory, or raises
Wget ==
  /\ bpc = "wget"
  /\ \/ bpc' = "raised" /\ UNCHANGED << disk, blog >>
     \/ \E sent \in Archives(bin_os) :
          /\ disk' = [disk EXCEPT !.archive = sent]
          /\ blog' = Append(blog, "wget")
          /\ bpc' = IF EndsWith(ArchiveName(bin_os), DotZip) THEN "unzip" ELSE "exit"
  /\ UNCHANGED << video_json, page_source, download_alternative_feeds, download_subtitles,
                  filename, manifests_served, status, built, url, found, resolved,
                  downloadState, courseState, passState, bin_os, disk0, brun, vttState >>

\* lines 69-76: the archive is opened (bytes that are no archive raise
\* BadZipFile) and extracted; the extraction may fail on the way
Unzip ==
  /\ bpc = "unzip"
  /\ IF ~disk.archive.zip
     THEN bpc' = "raised" /\ UNCHANGED << disk, blog >>
     ELSE \E ok \in BOOLEAN :
            /\ disk' = ExtractAll(disk)
            /\ blog' = Append(blog, "extract")
            /\ bpc' = IF ok THEN "copy" ELSE "raised"
  /\ UNCHANGED << video_json, page_source, download_alternative_feeds, download_subtitles,
                  filename, manifests_served, status, built, url, found, resolved,
                  downloadState, courseState, passState, bin_os, disk0, brun, vttState >>

\* lines 79-87: the driver is copied out of bin/temp, bin/temp is removed
CopyAndClean ==
  /\ bpc = "copy"
  /\ disk' = RemoveTemp(CopyDriver(disk))
  /\ blog' = blog \o (IF CopyDriver(disk) # disk THEN << "copy" >> ELSE << >>)
                  \o << "rmtree" >>
  /\ bpc' = "remove"
  /\ UNCHANGED << video_json, page_source, download_alternative_feeds, download_subtitles,
                  filename, manifests_served, status, built, url, found, resolved,
                  downloadState, courseState, passState, bin_os, disk0, brun, vttState >>

\* lines 93-94: the archive is removed, the binary made executable
BinaryEnd ==
  /\ bpc = "remove"
  /\ LET c == Chmod(RemoveArchive(disk))
     IN  /\ disk' = c.disk
         /\ blog' = blog \o << "remove" >> \o (IF c.raised THEN << >> ELSE << "chmod" >>)
         /\ bpc' = IF c.raised THEN "raised" ELSE "returned"
  /\ UNCHANGED << video_json, page_source, download_alternative_feeds, download_subtitles,
                  filename, manifests_served, status, built, url, found, resolved,
                  downloadState, courseState, passState, bin_os, disk0, brun, vttState >>

(* ------------------------------ metadata -------------------------------- *)

\* video_json["lesson"]["medias"] entries
VideoMedia == [mediaType |-> "Video", id |-> "m1", title |-> "video"]
SlidesMedia == [mediaType |-> "Presentation", id |-> "m2", title |-> "slides.pdf"]

MetaJson(pf, hv, hav, man, medias) ==
  [ primaryFiles |-> pf, hasVideo |-> hv, hasAvailableVideo |-> hav,
    manifests |-> man, medias |-> medias ]

Lecture(json, page) == [json |-> json, page |-> page]

Absent == [present |-> FALSE, s3Urls |-> << >>, uris |-> << >>]
PrimaryFiles(s) == [present |-> TRUE, s3Urls |-> s, uris |-> << >>]
Manifests(s) == [present |-> TRUE, s3Urls |-> << >>, uris |-> s]

NoResolution ==
  [kind |-> "none", val |-> << >>, tried |-> << >>, won |-> 0,
   s2 |-> [kind |-> "notrun", val |-> << >>]]

\* the record of a call: its arguments, the value returned (ret), its network
\* requests (net) and mux invocations (mux), the files before and after it,
\* and what the manifest it requested gave ("none" if it requested none)
NoCall ==
  [op |-> "none", url |-> [kind |-> "none", text |-> << >>], name |-> "", ret |-> "none",
   net |-> << >>, mux |-> << >>, before |-> {}, after |-> {}, run |-> 0,
   manifest |-> "none", parsed |-> [lines |-> << >>, error |-> FALSE, video |-> << >>, audio |-> << >>]]

\* LECTURES: the lectures (metadata and rendered page) the run may meet
InitPipeline(LECTURES, ALT, SUBS) ==
  /\ \E l \in LECTURES : video_json = l.json /\ page_source = l.page
  /\ download_alternative_feeds \in ALT
  /\ download_subtitles \in SUBS
  /\ filename = "lec"
  /\ status = "new"
  /\ built = 0
  /\ url = [kind |-> "unset", val |-> << >>]
  /\ found = NoResolution
  /\ resolved = {}
  /\ fs = {}
  /\ partial = {}
  /\ pc = "idle"
  /\ run = 0
  /\ urls = << >>
  /\ counter = 0
  /\ final_result = "none"
  /\ netlog = << >>
  /\ muxlog = << >>
  /\ last = NoCall
  /\ hist = [fs0 |-> {}, inARow |-> FALSE, touched |-> FALSE]
  /\ jar = 1
  /\ session_cookies = 0
  /\ cookielog = << >>

\* no transcript file is being converted
NoVttOut == [paragraphs |-> << >>, text |-> << >>]

VttInit(FILES) ==
  /\ vtt_lines \in FILES
  /\ vtt_out = NoVttOut
  /\ vpc = "new"

\* the browser driver is installed, there is no transcript file to convert
InitState(LECTURES, ALT, SUBS) ==
  /\ InitPipeline(LECTURES, ALT, SUBS)
  /\ BinaryInit({ Linux64 }, { Disk("exec", NoFile, NoDir) })
  /\ VttInit({ << >> })

(* ----------------------- EchoCloudVideo.__init__ ------------------------ *)

PageReads == { "ok", "raise" }

\* a constructor that resolves the stream whatever the mode
Build_AlwaysResolves ==
  /\ pc = "idle" /\ run = 0
  /\ built' = built + 1
  /\ \E read3 \in PageReads, read4 \in PageReads :
     \E order \in Orders(BruteForceGetUrl(page_source, M3u8, "ok").urls) :
       LET r == LoopFindM3u8Url(video_json, Hostname, page_source, read3, read4, order)
       IN  /\ found' = r
           /\ status' = IF r.kind = "raised" THEN "failed" ELSE "built"
           /\ url' = IF r.kind = "raised"
                     THEN [kind |-> "unset", val |-> << >>]
                     ELSE [kind |-> r.kind, val |-> r.val]
           /\ resolved' = IF read3 = "ok" /\ read4 = "ok"
                          THEN resolved \cup { [kind |-> r.kind, val |-> r.val] }
                          ELSE resolved
  /\ UNCHANGED << inputs, downloadState, courseState, passState >>

\* __init__ for a lecture that is not multi-part: in subtitles mode the url is
\* None, else it is what _loop_find_m3u8_url returns; an exception leaves no
\* object (the collection drops the lecture).
Build ==
  /\ pc = "idle" /\ run = 0
  /\ built' = built + 1
  /\ IF download_subtitles
     THEN /\ url' = [kind |-> "none", val |-> << >>]
          /\ status' = "built"
          /\ found' = NoResolution
          /\ resolved' = resolved
     ELSE \E read3 \in PageReads, read4 \in PageReads :
          \E order \in Orders(BruteForceGetUrl(page_source, M3u8, "ok").urls) :
            LET r == LoopFindM3u8Url(video_json, Hostname, page_source, read3, read4, order)
            IN  /\ found' = r
                /\ status' = IF r.kind = "raised" THEN "failed" ELSE "built"
                /\ url' = IF r.kind = "raised"
                          THEN [kind |-> "unset", val |-> << >>]
                          ELSE [kind |-> r.kind, val |-> r.val]
                /\ resolved' = IF read3 = "ok" /\ read4 = "ok"
                               THEN resolved \cup { [kind |-> r.kind, val |-> r.val] }
                               ELSE resolved
  /\ UNCHANGED << inputs, downloadState, courseState, passState >>

\* the collection builds the lecture object
Construct == status = "new" /\ Build

\* a rerun of the program builds the object again from the same inputs
Reconstruct == status # "new" /\ built < MaxConstruct /\ Build

(* ------------------------------- files --------------------------------- *)

\* os.path.join(dirty_dir, name), os.path.join(clean_dir, name)
Dirty(name) == "dirty/" \o name
Clean(name) == "clean/" \o name

\* the extension of the file the segment downloader leaves (convert_to_mp4=False)
RawExt == "ts"

FinalPath(name) == Dirty(name \o ".mp4")
AudioPath(name) == Dirty(name \o "_audio." \o RawExt)
VideoPath(name) == Dirty(name \o "_video." \o RawExt)
VttPath(name) == Dirty(name \o ".vtt")
TxtPath(name) == Clean(name \o ".txt")

Request(kind, src, target) == [kind |-> kind, src |-> src, target |-> target]

(* --------------------- EchoCloudVideo.combine_audio_video --------------- *)

MuxTool == { "ok", "unavailable", "failed" }

\* combine_audio_video(audio_file, video_file, final_file): audio is << >> for
\* None. tool is what running ffmpeg does: "unavailable" raises
\* FFExecutableNotFoundError, "failed" FFRuntimeError; ffmpeg also fails when an
\* input file is missing. Gives the files afterwards and the value returned.
\* atRun is the set of files when the tool is started, inputs the input
\* files in the order the tool is given them (the insertion order of _inputs).
\* mutant: a file at the target path is left where it is
CombineAudioVideo_KeepStale(f, audio, video, final, tool) ==
  LET ins == << video >> \o audio
  IN  IF tool = "ok" /\ Range(ins) \subseteq f
      THEN [fs |-> f \cup { final }, ok |-> TRUE, atRun |-> f, inputs |-> ins]
      ELSE [fs |-> f, ok |-> FALSE, atRun |-> f, inputs |-> ins]

\* mutant: the audio file is put into _inputs before the video file
CombineAudioVideo_AudioFirst(f, audio, video, final, tool) ==
  LET f1 == f \ { final }
      ins == audio \o << video >>
  IN  IF tool = "ok" /\ Range(ins) \subseteq f1
      THEN [fs |-> f1 \cup { final }, ok |-> TRUE, atRun |-> f1, inputs |-> ins]
      ELSE [fs |-> f1, ok |-> FALSE, atRun |-> f1, inputs |-> ins]

CombineAudioVideo(f, audio, video, final, tool) ==
  LET f1 == f \ { final }
      ins == << video >> \o audio
  IN  IF tool = "ok" /\ Range(ins) \subseteq f1
      THEN [fs |-> f1 \cup { final }, ok |-> TRUE, atRun |-> f1, inputs |-> ins]
      ELSE [fs |-> f1, ok |-> FALSE, atRun |-> f1, inputs |-> ins]

\* one invocation of the mux tool: its inputs in the order given, its output
\* path, whether a file was at that path when the tool started (stale), and
\* whether combine_audio_video returned True
MuxCall(ins, out, tool, ok, stale) ==
  [inputs |-> ins, output |-> out, tool |-> tool, ok |-> ok, stale |-> stale]

(* --------------------- EchoCloudVideo.download_single ------------------- *)

\* one element of the list download() loops over: a url, False or None
UrlValue(text) == [kind |-> "str", text |-> text]
FalseValue == [kind |-> "false", text |-> << >>]
NoneValue == [kind |-> "none", text |-> << >>]

\* what the network, the manifest parser and the mux tool do during one call
Env(vtt200, manifestOk, parse, audioXfer, videoXfer, tool, fileXfer) ==
  [ vtt200 |-> vtt200, manifestOk |-> manifestOk, parse |-> parse,
    audioXfer |-> audioXfer, videoXfer |-> videoXfer, tool |-> tool,
    fileXfer |-> fileXfer, decode |-> "ok" ]

\* the transcript is answered with bytes that response.content.decode('utf-8')
\* (line 483) raises on
Undecodable ==
  [ Env(TRUE, TRUE, "both", "ok", "ok", "ok", "ok") EXCEPT !.decode = "raise" ]

\* what the manifest parser gives: an exception, no video entry, a video entry,
\* a video and an audio entry
ParseResults == { "error", "novideo", "video", "both" }
Transfers == { "ok", "raise" }
FileTransfers == { "ok", "partial", "raise" }

EnvSet ==
  { Env(v, TRUE, "both", "ok", "ok", "ok", "ok") : v \in BOOLEAN }
    \cup { Env(TRUE, FALSE, "both", "ok", "ok", "ok", "ok") }
    \cup { Env(TRUE, TRUE, p, a, x, t, "ok") :
             p \in ParseResults, a \in Transfers, x \in Transfers, t \in MuxTool }
    \cup { Env(TRUE, TRUE, "both", "ok", "ok", "ok", x) : x \in FileTransfers }
    \cup { Undecodable }

\* the id of the first media of type Video, << >> for None
MediaId(vj) ==
  LET vids == SelectSeq(vj.medias, LAMBDA m : m.mediaType = "Video")
  IN  IF Len(vids) = 0 THEN << >> ELSE << vids[1].id >>

Outcome(f, part, net, mux, ret) ==
  [fs |-> f, partial |-> part, net |-> net, mux |-> mux, ret |-> ret]

\* what the manifest requested by a call gave: it could not be fetched, or
\* what the parser made of it
ManifestResult(net, e) ==
  IF net = << >> \/ net[1].kind # "manifest" THEN "none"
  ELSE IF ~e.manifestOk THEN "unfetched"
  ELSE e.parse

(* ------------------ NaiveM3U8Parser (manifest interpreter) -------------- *)

\* a manifest is its text split into lines; "#ENTRY role=<role>" announces the
\* variant whose URI is the next line
ExtM3u == "#EXTM3U"
EntryVideo == "#ENTRY role=video"
EntryAudio == "#ENTRY role=audio"
EntryCombined == "#ENTRY role=combined"

D_both == << ExtM3u, EntryVideo, "video.manifest", EntryAudio, "audio.manifest" >>
D_audioFirst == << ExtM3u, EntryAudio, "a/audio.m3u8", EntryVideo, "v/video.m3u8" >>
D_combined == << ExtM3u, EntryCombined, "av.manifest" >>
D_audioOnly == << ExtM3u, EntryAudio, "audio.manifest" >>

D_tagged == << ExtM3u, "#EXT-X-VERSION:3", EntryVideo, "v.m3u8", EntryAudio, "a.m3u8", "" >>

\* r.content.decode().split("\n") of the manifests the server may answer
\* with: one of each kind, and more of them
PipelineDocs == { D_both, D_combined, D_audioOnly }
ManifestDocs == PipelineDocs \cup { D_audioFirst, D_tagged }

EntryRole(line) ==
  IF line = EntryVideo THEN "video"
  ELSE IF line = EntryAudio THEN "audio"
  ELSE IF line = EntryCombined THEN "combined"
  ELSE "none"

\* the variant entries of a manifest, in the order of its lines
Entries(lines) ==
  LET idx == SelectSeq([ i \in 1..Len(lines) |-> i ],
                       LAMBDA i : EntryRole(lines[i]) # "none" /\ i < Len(lines))
  IN  [ k \in 1..Len(idx) |-> [role |-> EntryRole(lines[idx[k]]), uri |-> lines[idx[k] + 1]] ]

\* parse() and get_video_and_audio(): the URIs of the video-bearing entry
\* (the last one if there are several) and of the separate audio entry, << >>
\* for None; a manifest without a video-bearing entry is a parse error
NaiveM3U8Parser(lines) ==
  LET es == Entries(lines)
      vs == SelectSeq(es, LAMBDA x : x.role \in { "video", "combined" })
      as == SelectSeq(es, LAMBDA x : x.role = "audio")
  IN  IF Len(vs) = 0
      THEN [error |-> TRUE, video |-> << >>, audio |-> << >>]
      ELSE [error |-> FALSE,
            video |-> << vs[Len(vs)].uri >>,
            audio |-> IF Len(as) = 0 THEN << >> ELSE << as[1].uri >>]

\* what lines 513-526 can see of a manifest: a parse error reaches them as an
\* exception of parse() or as a video URI of None
ParseSignals(lines) ==
  LET p == NaiveM3U8Parser(lines)
  IN  IF p.error THEN { "error", "novideo" }
      ELSE IF p.audio = << >> THEN { "video" }
      ELSE { "both" }

NoParse == [lines |-> << >>, error |-> FALSE, video |-> << >>, audio |-> << >>]

\* mutant of Parsed: "m3u8_audio, m3u8_video = get_video_and_audio()"
Parsed_Swapped(mr, lines) ==
  IF mr \in { "none", "unfetched" } THEN NoParse
  ELSE LET p == NaiveM3U8Parser(lines)
       IN  [lines |-> lines, error |-> p.error, video |-> p.audio, audio |-> p.video]

\* the manifest a call was answered with and what the interpreter returned
Parsed(mr, lines) ==
  IF mr \in { "none", "unfetched" } THEN NoParse
  ELSE LET p == NaiveM3U8Parser(lines)
       IN  [lines |-> lines, error |-> p.error, video |-> p.video, audio |-> p.audio]

\* mutant of DownloadManifest: no test for a missing video entry
DownloadManifest_NoVideoCheck(f, part, text, name, e) ==
  LET man == << Request("manifest", text, FinalPath(name)) >>
      hasAudio == e.parse = "both"
      audio == IF hasAudio THEN << AudioPath(name) >> ELSE << >>
      areq == IF hasAudio THEN << Request("audio", text, AudioPath(name)) >> ELSE << >>
      vreq == << Request("video", text, VideoPath(name)) >>
      f1 == f \cup Range(audio)
      f2 == f1 \cup { VideoPath(name) }
      c == CombineAudioVideo(f2, audio, VideoPath(name), FinalPath(name), e.tool)
      mux == << MuxCall(c.inputs, FinalPath(name), e.tool, c.ok,
                        FinalPath(name) \in c.atRun) >>
  IN  IF ~e.manifestOk \/ e.parse = "error"
      THEN Outcome(f, part, man, << >>, "false")
      ELSE IF hasAudio /\ e.audioXfer = "raise"
      THEN Outcome(f, part, man \o areq, << >>, "raised")
      ELSE IF e.videoXfer = "raise"
      THEN Outcome(f1, part \ Range(audio), man \o areq \o vreq, << >>, "raised")
      ELSE IF c.ok
      THEN Outcome(c.fs \ (Range(audio) \cup { VideoPath(name) }),
                   part \ (Range(audio) \cup { VideoPath(name), FinalPath(name) }),
                   man \o areq \o vreq, mux, "true")
      ELSE Outcome(c.fs, part \ (Range(audio) \cup { VideoPath(name), FinalPath(name) }),
                   man \o areq \o vreq, mux, "true")

\* mutant of DownloadManifest: the raw artifacts are removed whatever
\* combine_audio_video returns
DownloadManifest_AlwaysCleanup(f, part, text, name, e) ==
  LET man == << Request("manifest", text, FinalPath(name)) >>
      hasAudio == e.parse = "both"
      audio == IF hasAudio THEN << AudioPath(name) >> ELSE << >>
      areq == IF hasAudio THEN << Request("audio", text, AudioPath(name)) >> ELSE << >>
      vreq == << Request("video", text, VideoPath(name)) >>
      f1 == f \cup Range(audio)
      f2 == f1 \cup { VideoPath(name) }
      c == CombineAudioVideo(f2, audio, VideoPath(name), FinalPath(name), e.tool)
      mux == << MuxCall(c.inputs, FinalPath(name), e.tool, c.ok,
                        FinalPath(name) \in c.atRun) >>
  IN  IF ~e.manifestOk \/ e.parse \in { "error", "novideo" }
      THEN Outcome(f, part, man, << >>, "false")
      ELSE IF hasAudio /\ e.audioXfer = "raise"
      THEN Outcome(f, part, man \o areq, << >>, "raised")
      ELSE IF e.videoXfer = "raise"
      THEN Outcome(f1, part \ Range(audio), man \o areq \o vreq, << >>, "raised")
      ELSE Outcome(c.fs \ (Range(audio) \cup { VideoPath(name) }),
                   part \ (Range(audio) \cup { VideoPath(name), FinalPath(name) }),
                   man \o areq \o vreq, mux, "true")

\* lines 500-560: a manifest-based source
DownloadManifest(f, part, text, name, e) ==
  LET man == << Request("manifest", text, FinalPath(name)) >>
      hasAudio == e.parse = "both"
      audio == IF hasAudio THEN << AudioPath(name) >> ELSE << >>
      areq == IF hasAudio THEN << Request("audio", text, AudioPath(name)) >> ELSE << >>
      vreq == << Request("video", text, VideoPath(name)) >>
      f1 == f \cup Range(audio)
      f2 == f1 \cup { VideoPath(name) }
      c == CombineAudioVideo(f2, audio, VideoPath(name), FinalPath(name), e.tool)
      mux == << MuxCall(c.inputs, FinalPath(name), e.tool, c.ok,
                        FinalPath(name) \in c.atRun) >>
  IN  IF ~e.manifestOk \/ e.parse \in { "error", "novideo" }
      THEN Outcome(f, part, man, << >>, "false")
      ELSE IF hasAudio /\ e.audioXfer = "raise"
      THEN Outcome(f, part, man \o areq, << >>, "raised")
      ELSE IF e.videoXfer = "raise"
      THEN Outcome(f1, part \ Range(audio), man \o areq \o vreq, << >>, "raised")
      ELSE IF c.ok
      THEN Outcome(c.fs \ (Range(audio) \cup { VideoPath(name) }),
                   part \ (Range(audio) \cup { VideoPath(name), FinalPath(name) }),
                   man \o areq \o vreq, mux, "true")
      ELSE Outcome(c.fs, part \ (Range(audio) \cup { VideoPath(name), FinalPath(name) }),
                   man \o areq \o vreq, mux, "true")

\* lines 562-572: a direct file, streamed into the final path
DownloadFile(f, part, text, name, e) ==
  LET req == << Request("file", text, FinalPath(name)) >>
  IN  IF e.fileXfer = "raise"
      THEN Outcome(f, part, req, << >>, "raised")
      ELSE IF e.fileXfer = "partial"
      THEN Outcome(f \cup { FinalPath(name) }, part \cup { FinalPath(name) }, req, << >>,
                   "raised")
      ELSE Outcome(f \cup { FinalPath(name) }, part \ { FinalPath(name) }, req, << >>,
                   "true")

\* mutant of DownloadVideo: no test for an existing <filename>.mp4
DownloadVideo_NoSkip(f, part, single_url, name, e) ==
  IF single_url.kind = "none"
  THEN Outcome(f, part, << >>, << >>, "true")
  ELSE IF single_url.kind = "false"
  THEN Outcome(f, part, << >>, << >>, "raised")
  ELSE IF EndsWith(single_url.text, DotM3u8)
  THEN DownloadManifest(f, part, single_url.text, name, e)
  ELSE DownloadFile(f, part, single_url.text, name, e)

\* lines 492-576: the video part of download_single
DownloadVideo(f, part, single_url, name, e) ==
  IF single_url.kind = "none"
  THEN Outcome(f, part, << >>, << >>, "true")
  ELSE IF FinalPath(name) \in f
  THEN Outcome(f, part, << >>, << >>, "true")
  ELSE IF single_url.kind = "false"
  THEN Outcome(f, part, << >>, << >>, "raised")
  ELSE IF EndsWith(single_url.text, DotM3u8)
  THEN DownloadManifest(f, part, single_url.text, name, e)
  ELSE DownloadFile(f, part, single_url.text, name, e)

\* download_single(session, single_url, output_dir, filename, pool_size)
DownloadSingle(f, part, single_url, name, subtitles, vj, e) ==
  LET vget == Request("vtt", << >>, VttPath(name))
      vhead == Request("vtthead", << >>, VttPath(name))
  IN  IF ~subtitles
      THEN DownloadVideo(f, part, single_url, name, e)
      ELSE IF MediaId(vj) = << >>
      THEN Outcome(f, part, << >>, << >>, "false")
      ELSE IF VttPath(name) \in f
      THEN DownloadVideo(f, part, single_url, name, e)
      ELSE IF e.vtt200 /\ e.decode = "raise"
      THEN Outcome(f \cup { VttPath(name) }, part, << vget, vhead >>, << >>, "raised")
      ELSE IF e.vtt200
      THEN Outcome(f \cup { VttPath(name), TxtPath(name) }, part, << vget, vhead >>, << >>,
                   "true")
      ELSE Outcome(f, part, << vget >>, << >>, "false")

(* ------------------------ EchoCloudVideo.download ----------------------- *)

\* mutant of SelectUrls: the list is never cut to its first element
SelectUrls_NoSlice(u, alternative_feeds) ==
  IF u.kind = "list" THEN [ i \in 1..Len(u.val) |-> UrlValue(u.val[i]) ]
  ELSE IF u.kind = "str" THEN << UrlValue(u.val[1]) >>
  ELSE IF u.kind = "false" THEN << FalseValue >>
  ELSE << NoneValue >>

\* lines 384-390: urls = self.url, wrapped in a list unless it is one, cut to
\* its first element unless alternative feeds are wanted
SelectUrls(u, alternative_feeds) ==
  LET all == IF u.kind = "list" THEN [ i \in 1..Len(u.val) |-> UrlValue(u.val[i]) ]
             ELSE IF u.kind = "str" THEN << UrlValue(u.val[1]) >>
             ELSE IF u.kind = "false" THEN << FalseValue >>
             ELSE << NoneValue >>
  IN  IF alternative_feeds THEN all ELSE Take(all, 1)

\* lines 418-422: the file name of the counter-th feed (counter from 0)
NewFilename(name, i, alternative_feeds) ==
  IF alternative_feeds THEN name \o ToString(i + 1) ELSE name

\* mutant of MissingMedia: no test for an existing media file
MissingMedia_NoExistsCheck(vj, f) ==
  SelectSeq(vj.medias, LAMBDA m : m.mediaType # "Video")

\* lines 396-412: the attached media that are not videos and not yet on disk
MissingMedia(vj, f) ==
  SelectSeq(vj.medias, LAMBDA m : m.mediaType # "Video" /\ Dirty(m.title) \notin f)

MediaRequests(ms) == [ i \in 1..Len(ms) |-> Request("media", << >>, Dirty(ms[i].title)) ]

MaxJar == 2

\* a call of self._driver.get_cookies() that finds version j
CookieRead(j) == [use |-> "read", jar |-> j]

\* the cookies a request is sent with: the manifest and a direct file go
\* through the session download() made (lines 501, 565); each segmented
\* transfer builds a Downloader from get_cookies() (lines 160-162); the
\* transcript request reads them again (465-469) and its HEAD reuses them;
\* the attached media use the dict read at 393-395
CookiesOf(req, sess, j) ==
  IF req.kind \in { "manifest", "file" }
  THEN << [use |-> req.kind, jar |-> sess] >>
  ELSE IF req.kind \in { "audio", "video", "vtt" }
  THEN << CookieRead(j), [use |-> req.kind, jar |-> j] >>
  ELSE << [use |-> req.kind, jar |-> j] >>

RECURSIVE CookieLog(_, _, _)
CookieLog(net, sess, j) ==
  IF net = << >> THEN << >>
  ELSE CookiesOf(Head(net), sess, j) \o CookieLog(Tail(net), sess, j)

\* the portal renews the cookies of the rendering session while a lecture is
\* being downloaded
RefreshCookies ==
  /\ pc = "loop" /\ jar < MaxJar
  /\ jar' = jar + 1
  /\ UNCHANGED << inputs, status, built, url, found, resolved, fs, partial, pc, run, urls,
                  counter, final_result, netlog, muxlog, last, hist, session_cookies,
                  cookielog, courseState, passState >>

\* download() up to its loop: in video mode the urls are selected and every
\* missing attached media is requested and saved if the answer is 200; in
\* subtitles mode download_single is called once, with None
DownloadBegin ==
  /\ pc = "idle" /\ status = "built" /\ run < MaxRuns
  /\ run' = run + 1
  /\ pc' = "loop"
  /\ counter' = 0
  /\ final_result' = "true"
  /\ muxlog' = << >>
  /\ last' = NoCall
  /\ hist' = [fs0 |-> fs, inARow |-> run >= 1 /\ ~hist.touched, touched |-> FALSE]
  /\ session_cookies' = jar
  /\ IF download_subtitles
     THEN /\ urls' = << NoneValue >>
          /\ netlog' = << >>
          /\ cookielog' = << CookieRead(jar) >>
          /\ fs' = fs
     ELSE /\ urls' = SelectUrls(url, download_alternative_feeds)
          /\ netlog' = MediaRequests(MissingMedia(video_json, fs))
          /\ cookielog' = << CookieRead(jar), CookieRead(jar) >>
                            \o CookieLog(MediaRequests(MissingMedia(video_json, fs)), jar, jar)
          /\ \E ok \in SUBSET { Dirty(m.title) : m \in Range(MissingMedia(video_json, fs)) } :
               fs' = fs \cup ok
  /\ UNCHANGED << inputs, status, built, url, found, resolved, partial, jar, courseState,
                  passState >>

\* the environments of EnvSet that differ in something a call with this url
\* can meet: the transcript answer in subtitles mode, the manifest, its
\* transfers and the mux tool for a manifest url, the transfer for a file
EnvFor(single_url, subtitles) ==
  IF subtitles
  THEN { e \in EnvSet :
           [ e EXCEPT !.decode = "ok" ] = Env(e.vtt200, TRUE, "both", "ok", "ok", "ok", "ok") }
  ELSE IF single_url.kind # "str"
  THEN { Env(TRUE, TRUE, "both", "ok", "ok", "ok", "ok") }
  ELSE IF EndsWith(single_url.text, DotM3u8)
  THEN { e \in EnvSet : e.vtt200 /\ e.fileXfer = "ok" /\ e.decode = "ok" }
  ELSE { e \in EnvSet : e = Env(TRUE, TRUE, "both", "ok", "ok", "ok", e.fileXfer) }

\* the manifests the server may answer a manifest url with, given what the
\* interpreter makes of the answer in environment e
DocsFor(single_url, subtitles, e) ==
  IF ~subtitles /\ single_url.kind = "str" /\ EndsWith(single_url.text, DotM3u8)
     /\ e.manifestOk
  THEN { d \in manifests_served : e.parse \in ParseSignals(d) }
  ELSE { D_both }

\* "final_result and result"
And(a, b) == IF a = "true" THEN b ELSE a

\* one turn of download()'s loop: download_single for the next url. An
\* exception it raises ends download().
DownloadSingleCall ==
  /\ pc = "loop" /\ counter < Len(urls)
  /\ \E e \in EnvFor(urls[counter + 1], download_subtitles) :
     \E doc \in DocsFor(urls[counter + 1], download_subtitles, e) :
       LET name == IF download_subtitles THEN filename
                   ELSE NewFilename(filename, counter, download_alternative_feeds)
           r == DownloadSingle(fs, partial, urls[counter + 1], name, download_subtitles,
                               video_json, e)
           mr == ManifestResult(r.net, e)
       IN  /\ fs' = r.fs
           /\ partial' = r.partial
           /\ netlog' = netlog \o r.net
           /\ cookielog' = cookielog \o CookieLog(r.net, session_cookies, jar)
           /\ muxlog' = muxlog \o r.mux
           /\ last' = [op |-> "download_single", url |-> urls[counter + 1], name |-> name,
                       ret |-> r.ret, net |-> r.net, mux |-> r.mux,
                       before |-> fs, after |-> r.fs, run |-> run,
                       manifest |-> mr, parsed |-> Parsed(mr, doc)]
           /\ counter' = counter + 1
           /\ IF r.ret = "raised"
              THEN /\ pc' = "idle"
                   /\ final_result' = "raised"
                   /\ hist' = [hist EXCEPT !.touched = FALSE]
              ELSE /\ pc' = "loop"
                   /\ final_result' = And(final_result, r.ret)
                   /\ hist' = hist
  /\ UNCHANGED << inputs, status, built, url, found, resolved, run, urls, jar,
                  session_cookies, courseState, passState >>

\* download() returns final_result
DownloadEnd ==
  /\ pc = "loop" /\ counter = Len(urls)
  /\ pc' = "idle"
  /\ hist' = [hist EXCEPT !.touched = FALSE]
  /\ UNCHANGED << inputs, status, built, url, found, resolved, fs, partial, run, urls,
                  counter, final_result, netlog, muxlog, last, jar, session_cookies,
                  cookielog, courseState, passState >>

\* combine_audio_video is a static method: a call of it on the lecture's
\* artifact paths, outside download(). The record of the run that ended
\* before it (urls, counter, final_result, netlog, muxlog) is dropped.
CombineCall ==
  /\ pc = "idle" /\ run >= 1
  /\ urls' = << >> /\ counter' = 0 /\ final_result' = "none"
  /\ netlog' = << >> /\ muxlog' = << >> /\ cookielog' = << >>
  /\ \E audio \in { << >>, << AudioPath(filename) >> }, tool \in MuxTool :
       LET c == CombineAudioVideo(fs, audio, VideoPath(filename), FinalPath(filename), tool)
       IN  /\ fs' = c.fs
           /\ partial' = partial \ { FinalPath(filename) }
           /\ hist' = [hist EXCEPT !.touched = TRUE]
           /\ last' = [op |-> "combine", url |-> NoneValue, name |-> filename,
                       ret |-> IF c.ok THEN "true" ELSE "false", net |-> << >>,
                       mux |-> << MuxCall(c.inputs,
                                          FinalPath(filename), tool, c.ok,
                                          FinalPath(filename) \in c.atRun) >>,
                       before |-> fs, after |-> c.fs, run |-> run, manifest |-> "none",
                       parsed |-> NoParse]
  /\ UNCHANGED << inputs, status, built, url, found, resolved, pc, run, jar,
                  session_cookies, courseState, passState >>

(* ----------------------- the page-read retry loop ---------------------- *)

\* max_attempts=5 of both _loop_find_m3u8_url methods
max_attempts == 5

\* the loop of EchoVideo._loop_find_m3u8_url (strategy 0) and of
\* brute_force_get_url (strategy 3: suffix mp4, strategy 4: suffix m3u8):
\* its two counters, and how often the page was read (reads), how many
\* TimeoutException (timeouts) and StaleElementReferenceException (stales)
\* the reads ended in, and the exception that left the loop (raised)
NoWait ==
  [ state |-> "idle", strategy |-> 0, refresh_attempt |-> 1, stale_attempt |-> 1,
    reads |-> 0, timeouts |-> 0, stales |-> 0, raised |-> "none" ]

\* stale_attempt = 1; refresh_attempt = 1; while True
StartWait(strategy) == [NoWait EXCEPT !.state = "reading", !.strategy = strategy]

\* how one turn of the loop ends: the page is read, the wait or the read
\* times out, an element is stale, or driver.get (outside the try) or the
\* body raises another exception
PageOutcomes == { "ok", "timeout", "stale", "error" }

\* mutant of LoopTurn: one counter for both kinds of failure
LoopTurn_SharedCounter(w, outcome) ==
  LET r == [w EXCEPT !.reads = @ + 1]
  IN  IF outcome = "ok" THEN [r EXCEPT !.state = "returned"]
      ELSE IF outcome = "error" THEN [r EXCEPT !.state = "raised", !.raised = "error"]
      ELSE LET c == [r EXCEPT !.timeouts = IF outcome = "timeout" THEN @ + 1 ELSE @,
                              !.stales = IF outcome = "stale" THEN @ + 1 ELSE @]
           IN  IF w.refresh_attempt >= max_attempts
               THEN [c EXCEPT !.state = "raised", !.raised = outcome]
               ELSE [c EXCEPT !.refresh_attempt = @ + 1]

\* mutant of LoopTurn: the bounds are tested with > instead of >=
LoopTurn_OneMore(w, outcome) ==
  LET r == [w EXCEPT !.reads = @ + 1]
  IN  IF outcome = "ok" THEN [r EXCEPT !.state = "returned"]
      ELSE IF outcome = "error" THEN [r EXCEPT !.state = "raised", !.raised = "error"]
      ELSE IF outcome = "timeout"
      THEN IF w.refresh_attempt > max_attempts
           THEN [r EXCEPT !.timeouts = @ + 1, !.state = "raised", !.raised = "timeout"]
           ELSE [r EXCEPT !.timeouts = @ + 1, !.refresh_attempt = @ + 1]
      ELSE IF w.stale_attempt > max_attempts
           THEN [r EXCEPT !.stales = @ + 1, !.state = "raised", !.raised = "stale"]
           ELSE [r EXCEPT !.stales = @ + 1, !.stale_attempt = @ + 1]

\* one turn of the while True loop
LoopTurn(w, outcome) ==
  LET r == [w EXCEPT !.reads = @ + 1]
  IN  IF outcome = "ok" THEN [r EXCEPT !.state = "returned"]
      ELSE IF outcome = "error" THEN [r EXCEPT !.state = "raised", !.raised = "error"]
      ELSE IF outcome = "timeout"
      THEN IF w.refresh_attempt >= max_attempts
           THEN [r EXCEPT !.timeouts = @ + 1, !.state = "raised", !.raised = "timeout"]
           ELSE [r EXCEPT !.timeouts = @ + 1, !.refresh_attempt = @ + 1]
      ELSE IF w.stale_attempt >= max_attempts
           THEN [r EXCEPT !.stales = @ + 1, !.state = "raised", !.raised = "stale"]
           ELSE [r EXCEPT !.stales = @ + 1, !.stale_attempt = @ + 1]

\* the message printed when a bound is reached: it names no lecture
BoundMessage(w) ==
  IF w.state = "raised" /\ w.raised = "timeout"
  THEN << [lecture |-> 0, text |-> "ERROR: Connection timeouted"] >>
  ELSE IF w.state = "raised" /\ w.raised = "stale"
  THEN << [lecture |-> 0, text |-> "ERROR: Elements are not stable"] >>
  ELSE << >>

(* ------------------------------ get_date ------------------------------- *)

\* a value of the metadata: the key is missing, the value is null, or text
NoKey == [kind |-> "absent", text |-> << >>]
Null == [kind |-> "null", text |-> << >>]
Text(t) == [kind |-> "str", text |-> t]

Digits == << "0", "1", "2", "3", "4", "5", "6", "7", "8", "9" >>
IsDigit(c) == c \in Range(Digits)
DigitVal(c) == (CHOOSE i \in 1..10 : Digits[i] = c) - 1

\* int() of a run of digits
RECURSIVE Number(_)
Number(t) ==
  IF t = << >> THEN 0
  ELSE 10 * Number(SubSeq(t, 1, Len(t) - 1)) + DigitVal(t[Len(t)])

\* "%0wd" of n
RECURSIVE Pad(_, _)
Pad(n, w) == IF w = 0 THEN << >> ELSE Pad(n \div 10, w - 1) \o << Digits[(n % 10) + 1] >>

DaysIn(month) == IF month = 2 THEN 29 ELSE IF month \in { 4, 6, 9, 11 } THEN 30 ELSE 31

\* dateutil.parser.parse(v).date() on what the portal sends: a timestamp
\* YYYY-MM-DD, alone or followed by "T" and a time, gives its date; None and
\* text that holds no date raise
ParseDate(v) ==
  LET t == v.text
      Fail == [raised |-> TRUE, year |-> 0, month |-> 0, day |-> 0]
  IN  IF v.kind # "str" \/ Len(t) < 10 THEN Fail
      ELSE IF \E i \in { 1, 2, 3, 4, 6, 7, 9, 10 } : ~IsDigit(t[i]) THEN Fail
      ELSE IF t[5] # "-" \/ t[8] # "-" \/ (Len(t) > 10 /\ t[11] # "T") THEN Fail
      ELSE LET year == Number(SubSeq(t, 1, 4))
               month == Number(SubSeq(t, 6, 7))
               day == Number(SubSeq(t, 9, 10))
           IN  IF year < 1 \/ month \notin 1..12 \/ day \notin 1..DaysIn(month) THEN Fail
               ELSE [raised |-> FALSE, year |-> year, month |-> month, day |-> day]

\* date.strftime("%Y-%m-%d")
Strftime(d) == Pad(d.year, 4) \o << "-" >> \o Pad(d.month, 2) \o << "-" >> \o Pad(d.day, 2)

Epoch == << "1", "9", "7", "0", "-", "0", "1", "-", "0", "1" >>

\* the date fields of a lesson: lesson.startTimeUTC (startTime for EchoVideo),
\* lesson.lesson.createdAt, groupInfo.createdAt
Dates(start, created, group) == [start |-> start, created |-> created, group |-> group]

\* _extract_date. EchoVideo (line 140) indexes its argument by "startTime",
\* and __init__ (74) passes the startTime value itself: a TypeError.
\* EchoCloudVideo (781-792): a multi-part lesson gives groupInfo.createdAt
\* unless it is null, and then looks up the key "u'updatedAt'", which no
\* metadata has; another lesson gives startTimeUTC if it is there and not
\* null, else createdAt if the key is there, else None.
ExtractDate(cls, dates, multipart) ==
  IF cls = "EchoVideos" THEN [raised |-> TRUE, val |-> Null]
  ELSE IF multipart
  THEN IF dates.group.kind = "str" THEN [raised |-> FALSE, val |-> dates.group]
       ELSE [raised |-> TRUE, val |-> Null]
  ELSE IF dates.start.kind = "str" THEN [raised |-> FALSE, val |-> dates.start]
  ELSE IF dates.created.kind # "absent" THEN [raised |-> FALSE, val |-> dates.created]
  ELSE [raised |-> FALSE, val |-> Null]

\* a get_date without its exception handler
GetDate_NoHandler(cls, dates, multipart) ==
  LET e == ExtractDate(cls, dates, multipart)
      d == ParseDate(e.val)
  IN  IF e.raised \/ d.raised THEN [raised |-> TRUE, date |-> << >>]
      ELSE [raised |-> FALSE, date |-> Strftime(d)]

\* get_date (lines 132-138): the date parsed and written as YYYY-MM-DD, or
\* "1970-01-01" on any exception
GetDate(cls, dates, multipart) ==
  LET e == ExtractDate(cls, dates, multipart)
      d == ParseDate(e.val)
  IN  IF e.raised \/ d.raised THEN [raised |-> FALSE, date |-> Epoch]
      ELSE [raised |-> FALSE, date |-> Strftime(d)]

\* a sort that leaves the list as it is
SortByDate_Unsorted(vs) == vs

\* list.sort(key=operator.attrgetter("date")): ascending by date, the
\* elements of one date in the order they had
RECURSIVE SortByDate(_)
SortByDate(vs) ==
  IF vs = << >> THEN << >>
  ELSE LET v == vs[Len(vs)]
           front == SortByDate(SubSeq(vs, 1, Len(vs) - 1))
           later == { i \in 1..Len(front) : StrLess(v.date, front[i].date) }
           pos == IF later = {} THEN Len(front) + 1
                  ELSE CHOOSE i \in later : \A j \in later : i <= j
       IN  SubSeq(front, 1, pos - 1) \o << v >> \o SubSeq(front, pos, Len(front))

(* ------------------- EchoVideos / EchoCloudVideos.__init__ -------------- *)

\* the three collection classes: EchoVideos (videos.py), EchoCloudVideos
\* (videos.py) and the EchoCloudVideos that course.py defines and uses
Collections == { "EchoVideos", "videos.EchoCloudVideos", "course.EchoCloudVideos" }

\* timestamps of the metadata, and a text that holds no date
Stamp1 == << "2", "0", "2", "4", "-", "0", "3", "-", "0", "1", "T", "0", "9" >>
Stamp2 == << "2", "0", "2", "4", "-", "0", "3", "-", "0", "8", "T", "0", "9" >>
Stamp3 == << "2", "0", "2", "3", "-", "1", "1", "-", "3", "0" >>
NoStamp == << "T", "B", "A" >>

\* one lesson item of the course: its metadata and rendered page, and for a
\* multi-part lesson ("lessons" in video_json) the titles of its parts
CourseItem(l, multipart, lessons) ==
  [json |-> l.json, page |-> l.page, multipart |-> multipart, lessons |-> lessons,
   dates |-> Dates(Text(Stamp1), Text(Stamp1), Text(Stamp1))]

\* the item with other date fields
Dated(item, start, created, group) ==
  [item EXCEPT !.dates = Dates(start, created, group)]

Course(cls, skip, items) ==
  [cls |-> cls, skip_video_on_error |-> skip, videos_json |-> items]

\* no collection: a lecture object on its own; skip_video_on_error has its
\* default
NoCourse == Course("none", TRUE, << >>)

\* video_json["groupInfo"]["name"] of a multi-part lesson, the title of a lesson
GroupName == "grp"
Title == "lec"

\* lines 313-333, 794-795: what get_all_parts() gives. A lesson that is not
\* multi-part has itself as its only part. For a multi-part lesson one
\* EchoCloudSubVideo is built per part; EchoCloudSubVideo.__init__ calls
\* EchoCloudVideo.__init__ without its subtitles argument, which raises
\* TypeError as soon as there is a part to build.
SubVideos(item) ==
  IF ~item.multipart
  THEN [raised |-> FALSE, val |-> << [self |-> TRUE, title |-> Title] >>]
  ELSE IF Len(item.lessons) > 0
  THEN [raised |-> TRUE, val |-> << >>]
  ELSE [raised |-> FALSE, val |-> << >>]

CourseInit(COURSES) ==
  /\ course \in COURSES
  /\ cpc = "new"
  /\ ci = 0
  /\ wait = NoWait
  /\ scan3 = "none"
  /\ videos = << >>
  /\ printed = << >>
  /\ fetched = {}

\* update_course_retrieval_progress(i + 1, total): a count, no lecture named.
\* course.py's class is built with suppress_progress=True.
Progress ==
  IF course.cls = "course.EchoCloudVideos" THEN << >>
  ELSE << [lecture |-> 0, text |-> "progress"] >>

\* the "except Exception: if not skip_video_on_error: raise" around the
\* construction of a lecture object; EchoVideos has no handler
Continues == course.cls # "EchoVideos" /\ course.skip_video_on_error

\* the lecture object was built and is appended to self._videos
VideoBuilt(k, u, parts) ==
  LET item == course.videos_json[k]
      d == GetDate(course.cls, item.dates, item.multipart)
  IN  IF d.raised
      THEN /\ videos' = videos
           /\ printed' = printed \o BoundMessage(wait')
                            \o (IF Continues THEN Progress ELSE << >>)
           /\ cpc' = IF Continues THEN "loop" ELSE "raised"
      ELSE /\ videos' = Append(videos, [lecture |-> k, url |-> u, parts |-> parts,
                                        date |-> d.date])
           /\ printed' = printed \o BoundMessage(wait') \o Progress
           /\ cpc' = "loop"

\* its construction raised: msgs is what the code printed before
VideoFailed(k, msgs) ==
  /\ videos' = videos
  /\ printed' = printed \o msgs \o (IF Continues THEN Progress ELSE << >>)
  /\ cpc' = IF Continues THEN "loop" ELSE "raised"

\* the src attribute of the content player's video element
ContentPlayerSrc == Url_s1_av

\* the constructor up to its loop over videos_json
CollectionBegin ==
  /\ course.cls \in Collections
  /\ cpc = "new"
  /\ cpc' = "loop"
  /\ UNCHANGED << lectureState, passState, course, ci, wait, scan3, videos, printed, fetched >>

\* the loop turns to the next lecture and builds its object, up to the first
\* page-read loop. course.py does not import EchoCloudVideo: the name
\* raises NameError.
VideoBegin ==
  /\ cpc = "loop" /\ ci < Len(course.videos_json)
  /\ ci' = ci + 1
  /\ scan3' = "none"
  /\ LET k == ci + 1
         item == course.videos_json[k]
         s1 == FromJsonMp4(item.json)
     IN  IF course.cls = "course.EchoCloudVideos"
         THEN wait' = NoWait /\ VideoFailed(k, << >>)
         ELSE IF course.cls = "EchoVideos"
         THEN /\ wait' = StartWait(0)
              /\ cpc' = "init"
              /\ UNCHANGED << videos, printed >>
         ELSE IF item.multipart
         THEN /\ wait' = NoWait
              /\ IF SubVideos(item).raised
                 THEN VideoFailed(k, << >>)
                 ELSE VideoBuilt(k, [kind |-> "unset", val |-> << >>], SubVideos(item).val)
         ELSE IF ~s1.raised
         THEN wait' = NoWait
              /\ VideoBuilt(k, [kind |-> "str", val |-> s1.val], SubVideos(item).val)
         ELSE /\ wait' = StartWait(3)
              /\ cpc' = "init"
              /\ UNCHANGED << videos, printed >>
  /\ UNCHANGED << lectureState, passState, course, fetched >>

\* one turn of the page-read loop
ReadPage ==
  /\ cpc = "init" /\ wait.state = "reading"
  /\ \E outcome \in PageOutcomes : wait' = LoopTurn(wait, outcome)
  /\ UNCHANGED << lectureState, passState, course, cpc, ci, scan3, videos, printed, fetched >>

\* the page-read loop has ended: the rest of _loop_find_m3u8_url and of the
\* lecture's __init__, up to the next page-read loop
VideoNext ==
  /\ cpc = "init" /\ wait.state \in { "returned", "raised" }
  /\ LET k == ci
         item == course.videos_json[k]
         how == IF wait.state = "raised" THEN "raise" ELSE "ok"
     IN  IF wait.strategy = 0
         THEN /\ wait' = wait /\ scan3' = scan3
              /\ IF how = "ok"
                 THEN VideoBuilt(k, [kind |-> "str", val |-> << ContentPlayerSrc >>],
                                 SubVideos(item).val)
                 ELSE VideoFailed(k, BoundMessage(wait))
         ELSE IF wait.strategy = 3 /\ BruteForceGetMp4Url(item.page, how).raised
         THEN /\ wait' = StartWait(4)
              /\ scan3' = how
              /\ printed' = printed \o BoundMessage(wait)
              /\ UNCHANGED << cpc, videos >>
         ELSE /\ wait' = wait
              /\ scan3' = IF wait.strategy = 3 THEN how ELSE scan3
              /\ \E order \in Orders(BruteForceGetUrl(item.page, M3u8, "ok").urls) :
                   LET r == LoopFindM3u8Url(item.json, Hostname, item.page,
                                            IF wait.strategy = 3 THEN how ELSE scan3,
                                            IF wait.strategy = 3 THEN "ok" ELSE how, order)
                   IN  IF r.kind = "raised"
                       THEN VideoFailed(k, BoundMessage(wait)
                                           \o << [lecture |-> 0, text |-> "Tried all methods"] >>)
                       ELSE VideoBuilt(k, [kind |-> r.kind, val |-> r.val],
                                       SubVideos(item).val)
  /\ UNCHANGED << lectureState, passState, course, ci, fetched >>

\* self._videos.sort(key=operator.attrgetter("date")) and the constructor
\* returns
CollectionEnd ==
  /\ cpc = "loop" /\ ci = Len(course.videos_json)
  /\ cpc' = "done"
  /\ videos' = SortByDate(videos)
  /\ UNCHANGED << lectureState, passState, course, ci, wait, scan3, printed, fetched >>

\* the caller of the collection runs download() on the next lecture of
\* videos that it has not yet fetched
FetchNext ==
  /\ cpc = "done"
  /\ \E i \in 1..Len(videos) :
       /\ videos[i].lecture \notin fetched
       /\ \A j \in 1..(i - 1) : videos[j].lecture \in fetched
       /\ fetched' = fetched \cup { videos[i].lecture }
  /\ UNCHANGED << lectureState, passState, course, cpc, ci, wait, scan3, videos, printed >>

(* ---------------------- EchoCloudCourse.get_videos ---------------------- *)

MaxPassRuns == 2

\* strip_illegal_path: the characters a file name must not hold are removed
IllegalChars == { "/", ":", "*", "?", "<", ">", "|" }
StripIllegalPath(s) == SelectSeq(s, LAMBDA c : c \notin IllegalChars)

\* str.lower() on the letters the names below are written with
LowerChar(c) ==
  CASE c = "A" -> "a" [] c = "B" -> "b" [] c = "C" -> "c" [] c = "H" -> "h"
    [] c = "S" -> "s" [] c = "W" -> "w" [] OTHER -> c
Lower(s) == [ i \in 1..Len(s) |-> LowerChar(s[i]) ]

\* self._course_name
CourseName == << "C", "S" >>

\* a metadata field: missing, null, or a timestamp whose first 10 characters
\* are the date
NoField == [kind |-> "absent", date |-> "", time |-> ""]
NullField == [kind |-> "null", date |-> "", time |-> ""]
Timestamp(d) == [kind |-> "str", date |-> d, time |-> "T09:00:00.000Z"]

LessonType == "SyllabusLessonType"
GroupType == "SyllabusGroupType"

\* an item of the course data: a lesson (medias: "video", "novideo", or
\* "absent" when the key is missing; future: its page says that no content
\* has been added yet) or a folder of items
LessonItem(id, name, start, created, medias, future) ==
  [type |-> LessonType, id |-> id, name |-> name, startTimeUTC |-> start,
   createdAt |-> created, medias |-> medias, future |-> future,
   groupInfo |-> << >>, lessons |-> << >>, path_prefix |-> << >>]
GroupItem(name, lessons) ==
  [type |-> GroupType, id |-> 0, name |-> << >>, startTimeUTC |-> NoField,
   createdAt |-> NoField, medias |-> "absent", future |-> FALSE,
   groupInfo |-> name, lessons |-> lessons, path_prefix |-> << >>]

\* "lesson" in item["type"].lower()
IsLesson(item) == item.type = LessonType

\* _count_lectures
RECURSIVE CountLectures(_)
CountLectures(its) ==
  IF its = << >> THEN 0
  ELSE (IF IsLesson(Head(its)) THEN 1 ELSE CountLectures(Head(its).lessons))
         + CountLectures(Tail(its))

\* lines 256-264: startTimeUTC[:10] if it is there, else createdAt[:10] if the
\* key is there (a TypeError if it is null), else "1970-01-01"
LectureDate(item) ==
  IF item.startTimeUTC.kind = "str"
  THEN [raised |-> FALSE, date |-> item.startTimeUTC.date]
  ELSE IF item.createdAt.kind = "str"
  THEN [raised |-> FALSE, date |-> item.createdAt.date]
  ELSE IF item.createdAt.kind = "null"
  THEN [raised |-> TRUE, date |-> ""]
  ELSE [raised |-> FALSE, date |-> "1970-01-01"]

\* filename = f"{lecture_date}_{lecture_name}" and the two paths made of it
Key(date, name) == [date |-> date, name |-> name]
GVttPath(key) == [dir |-> "dirty", date |-> key.date, name |-> key.name, ext |-> "vtt"]
GTxtPath(key) == [dir |-> "clean", date |-> key.date, name |-> key.name, ext |-> "txt"]

\* the transcript request: answered 200 or not, or session.get raises, or the
\* conversion of the saved file raises
Responses == { "200", "404", "raise", "convfail" }

\* lines 244-313, the transcript of one lesson: the dates and files after it,
\* the local filename, what was done (act), the keys requested (net), the
\* name printed, the lesson's own key (<< >> if it was not computed), and
\* whether an exception leaves get_videos
TranscriptPass(item, dates, files, fname, resp) ==
  LET lecture_name == StripIllegalPath(item.name)
      d == LectureDate(item)
      key == Key(d.date, lecture_name)
      seen == dates \cup { d.date }
      R(dt, f, fn, act, net, named, own) ==
        [dates |-> dt, files |-> f, filename |-> fn, act |-> act, net |-> net,
         named |-> named, own |-> own, raised |-> FALSE]
      \* "except Exception as e: print(... {filename} ...)"
      Caught(dt, f, fn, net, own) ==
        IF fn = << >>
        THEN [dates |-> dt, files |-> f, filename |-> fn, act |-> "unbound", net |-> net,
              named |-> << >>, own |-> own, raised |-> TRUE]
        ELSE R(dt, f, fn, "error", net, fn, own)
  IN  IF item.medias = "absent" THEN Caught(dates, files, fname, << >>, << >>)
      ELSE IF item.medias = "novideo"
      THEN R(dates, files, fname, "nomedia", << >>, << >>, << >>)
      ELSE IF d.raised THEN Caught(dates, files, fname, << >>, << >>)
      ELSE IF d.date \in dates
      THEN R(dates, files, fname, "dup", << >>, << key >>, << key >>)
      ELSE IF GTxtPath(key) \in files
      THEN R(seen, files, << key >>, "exists", << >>, << key >>, << key >>)
      ELSE IF resp = "200"
      THEN R(seen, files \cup { GVttPath(key), GTxtPath(key) }, << key >>, "fetched",
             << key >>, << key >>, << key >>)
      ELSE IF resp = "404"
      THEN R(seen, files, << key >>, "notavail", << key >>, << key >>, << key >>)
      ELSE IF resp = "raise"
      THEN Caught(seen, files, << key >>, << key >>, << key >>)
      ELSE Caught(seen, files \cup { GVttPath(key) }, << key >>, << key >>, << key >>)

NoItems == [items |-> << >>, path |-> << >>]

PassInit(TREES) ==
  /\ videos_tree \in TREES
  /\ gpc = "new"
  /\ queue = << >>
  /\ folder = NoItems
  /\ ii = 0
  /\ lecture_count = 0
  /\ processed_lectures = 0
  /\ skipped_lectures = 0
  /\ processed_lecture_dates = {}
  /\ processed_videos = << >>
  /\ found_future_lecture = FALSE
  /\ gfilename = << >>
  /\ tfs = {}
  /\ glog = << >>
  /\ grun = 1

\* lines 206-212: the lectures are counted and the root folder is queued
GetVideosBegin ==
  /\ gpc = "new"
  /\ lecture_count' = CountLectures(videos_tree)
  /\ queue' = << [items |-> videos_tree, path |-> << >>] >>
  /\ gpc' = "while"
  /\ UNCHANGED << lectureState, courseState, videos_tree, folder, ii, processed_lectures,
                  skipped_lectures, processed_lecture_dates, processed_videos,
                  found_future_lecture, gfilename, tfs, glog, grun >>

\* a loop that goes on dequeuing after a future lesson was found
QueuePop_IgnoresFuture ==
  /\ gpc = "while" /\ queue # << >>
  /\ folder' = Head(queue)
  /\ queue' = Tail(queue)
  /\ ii' = 0
  /\ gpc' = "for"
  /\ UNCHANGED << lectureState, courseState, videos_tree, lecture_count,
                  processed_lectures, skipped_lectures, processed_lecture_dates,
                  processed_videos, found_future_lecture, gfilename, tfs, glog, grun >>

\* lines 214-215: "while queue and not found_future_lecture: queue.pop(0)"
QueuePop ==
  /\ gpc = "while" /\ queue # << >> /\ ~found_future_lecture
  /\ folder' = Head(queue)
  /\ queue' = Tail(queue)
  /\ ii' = 0
  /\ gpc' = "for"
  /\ UNCHANGED << lectureState, courseState, videos_tree, lecture_count,
                  processed_lectures, skipped_lectures, processed_lecture_dates,
                  processed_videos, found_future_lecture, gfilename, tfs, glog, grun >>

LogEntry(item, act, own, net, named) ==
  [id |-> item.id, act |-> act, own |-> own, net |-> net, named |-> named,
   before |-> tfs, queued |-> Len(queue)]

\* lines 217-328: one turn of "for item in items"
PassItem ==
  /\ gpc = "for" /\ ii < Len(folder.items)
  /\ ii' = ii + 1
  /\ LET item == folder.items[ii + 1]
         path == folder.path
     IN  IF IsLesson(item)
         THEN IF item.future
              THEN /\ skipped_lectures' =
                        skipped_lectures
                          + (lecture_count - (processed_lectures + skipped_lectures))
                   /\ found_future_lecture' = TRUE
                   /\ gpc' = "while"
                   /\ glog' = Append(glog, LogEntry(item, "future", << >>, << >>, << >>))
                   /\ UNCHANGED << queue, processed_lectures, processed_lecture_dates,
                                   processed_videos, gfilename, tfs >>
              ELSE \E resp \in Responses :
                     LET t == TranscriptPass(item, processed_lecture_dates, tfs, gfilename,
                                             resp)
                     IN  /\ processed_videos' =
                              Append(processed_videos, [item EXCEPT !.path_prefix = path])
                         /\ processed_lecture_dates' = t.dates
                         /\ tfs' = t.files
                         /\ gfilename' = t.filename
                         /\ glog' = Append(glog, LogEntry(item, t.act, t.own, t.net, t.named))
                         /\ processed_lectures' =
                              IF t.raised THEN processed_lectures ELSE processed_lectures + 1
                         /\ gpc' = IF t.raised THEN "raised" ELSE "for"
                         /\ UNCHANGED << queue, skipped_lectures, found_future_lecture >>
         ELSE LET folder_name == StripIllegalPath(item.groupInfo)
                  new_path ==
                    IF Lower(folder_name) \in
                         { << "h", "o", "m", "e" >>,
                           << "e", "c", "h", "o", "3", "6", "0" >>, Lower(CourseName) }
                    THEN path
                    ELSE Append(path, folder_name)
              IN  /\ queue' = Append(queue, [items |-> item.lessons, path |-> new_path])
                  /\ gpc' = "for"
                  /\ UNCHANGED << processed_lectures, skipped_lectures,
                                  processed_lecture_dates, processed_videos,
                                  found_future_lecture, gfilename, tfs, glog >>
  /\ UNCHANGED << lectureState, courseState, videos_tree, folder, lecture_count, grun >>

\* the for loop has gone through the folder
ForEnd ==
  /\ gpc = "for" /\ ii = Len(folder.items)
  /\ gpc' = "while"
  /\ UNCHANGED << lectureState, courseState, videos_tree, queue, folder, ii, lecture_count,
                  processed_lectures, skipped_lectures, processed_lecture_dates,
                  processed_videos, found_future_lecture, gfilename, tfs, glog, grun >>

\* line 330: the while loop has ended and the counts are printed
GetVideosEnd ==
  /\ gpc = "while" /\ (queue = << >> \/ found_future_lecture)
  /\ gpc' = "done"
  /\ UNCHANGED << lectureState, courseState, videos_tree, queue, folder, ii, lecture_count,
                  processed_lectures, skipped_lectures, processed_lecture_dates,
                  processed_videos, found_future_lecture, gfilename, tfs, glog, grun >>

\* the program is run again on the same course: a new EchoCloudCourse (lines
\* 182-189), the files of the earlier run still there
GetVideosAgain ==
  /\ gpc \in { "done", "raised" } /\ grun < MaxPassRuns
  /\ grun' = grun + 1
  /\ gpc' = "new"
  /\ queue' = << >> /\ folder' = NoItems /\ ii' = 0
  /\ lecture_count' = 0 /\ processed_lectures' = 0 /\ skipped_lectures' = 0
  /\ processed_lecture_dates' = {}
  /\ processed_videos' = << >>
  /\ found_future_lecture' = FALSE
  /\ gfilename' = << >>
  /\ glog' = << >>
  /\ UNCHANGED << lectureState, courseState, videos_tree, tfs >>

(* ------------------- specification: one lecture's pipeline -------------- *)

\* lectures whose resolution gives each shape of self._url: one direct file
\* from the metadata, one or two page-scan files, one or two page-scan
\* manifests, and nothing at all
PipelinePages ==
  { {}, { Url_a_hd1 }, { Url_a_sd1, Url_a_hd2, Url_a_hd1 }, { Url_s1_av },
    { Url_s1_av, Url_s2_av } }
PipelineMedias == { << VideoMedia >>, << VideoMedia, SlidesMedia >> }

PipelineLectures ==
  { Lecture(MetaJson(PrimaryFiles(<< S3_sd, S3_hd >>), TRUE, TRUE, Manifests(<< Man_s1 >>), md),
            {}) : md \in PipelineMedias }
    \cup { Lecture(MetaJson(Absent, TRUE, TRUE, Manifests(<< Man_s1 >>), md), pg) :
              md \in PipelineMedias, pg \in PipelinePages }

Init ==
  /\ InitState(PipelineLectures, BOOLEAN, BOOLEAN)
  /\ manifests_served = PipelineDocs
  /\ CourseInit({ NoCourse })
  /\ PassInit({ << >> })

Next ==
  \/ Construct
  \/ DownloadBegin
  \/ DownloadSingleCall
  \/ DownloadEnd
  \/ CombineCall

Spec == Init /\ [][Next]_vars

(* ------------- specification: a pipeline with renewed cookies ----------- *)

CookieLectures ==
  { Lecture(MetaJson(Absent, TRUE, TRUE, Manifests(<< Man_s1 >>),
                     << VideoMedia, SlidesMedia >>), { Url_s1_av }),
    Lecture(MetaJson(PrimaryFiles(<< S3_hd >>), TRUE, TRUE, Absent, << VideoMedia >>), {}) }

InitCookies ==
  /\ InitState(CookieLectures, { FALSE }, BOOLEAN)
  /\ manifests_served = PipelineDocs
  /\ CourseInit({ NoCourse })
  /\ PassInit({ << >> })

NextCookies ==
  \/ Next
  \/ RefreshCookies

SpecCookies == InitCookies /\ [][NextCookies]_vars

(* ------------ specification: a pipeline with varied manifests ----------- *)

InitInterpreter ==
  /\ InitState({ Lecture(MetaJson(Absent, TRUE, TRUE, Manifests(<< Man_s1 >>),
                                  << VideoMedia >>), { Url_s1_av }) },
               { FALSE }, { FALSE })
  /\ manifests_served = ManifestDocs
  /\ CourseInit({ NoCourse })
  /\ PassInit({ << >> })

SpecInterpreter == InitInterpreter /\ [][Next]_vars

(* --------------------- specification: resolution only ------------------- *)

ResolvePrimaryFiles == { Absent } \cup { PrimaryFiles(s) : s \in SeqsUpTo(S3Urls, MaxFiles) }
ResolveManifests ==
  { Absent, Manifests(<< >>), Manifests(<< Man_s1 >>), Manifests(<< Man_s2 >>) }
ResolvePages == { P \in SUBSET PageUrls : Cardinality(P) <= MaxPage }

ResolveLectures ==
  { Lecture(MetaJson(pf, hv, hav, man, << VideoMedia >>), pg) :
      pf \in ResolvePrimaryFiles, hv \in BOOLEAN, hav \in BOOLEAN,
      man \in ResolveManifests, pg \in ResolvePages }

InitResolve ==
  /\ InitState(ResolveLectures, { FALSE }, { FALSE })
  /\ manifests_served = PipelineDocs
  /\ CourseInit({ NoCourse })
  /\ PassInit({ << >> })

NextResolve ==
  \/ Construct
  \/ Reconstruct

SpecResolve == InitResolve /\ [][NextResolve]_vars

(* ---------------- specification: resolution from manifests ------------- *)

MaxUris == 2

\* lectures without direct files in their metadata, with up to MaxUris
\* manifest uris in any order
ManifestLectures ==
  { Lecture(MetaJson(Absent, hv, hav, Manifests(s), << VideoMedia >>), pg) :
      hv \in BOOLEAN, hav \in BOOLEAN,
      s \in SeqsUpTo(ManifestUris \cup { Man_q }, MaxUris),
      pg \in { {}, { Url_s1_av }, { Url_s1_av, Url_s2_av, Url_s1_a } } }

InitManifests ==
  /\ InitState(ManifestLectures, { FALSE }, { FALSE })
  /\ manifests_served = PipelineDocs
  /\ CourseInit({ NoCourse })
  /\ PassInit({ << >> })

SpecManifests == InitManifests /\ [][NextResolve]_vars

(* ------------------ specification: a course's collection --------------- *)

\* lectures of a course: one resolved from its metadata, one from a manifest
\* on its page, one with nothing to find, and a multi-part one
L_meta == Lecture(MetaJson(PrimaryFiles(<< S3_hd >>), TRUE, TRUE, Absent, << VideoMedia >>), {})
L_page == Lecture(MetaJson(Absent, TRUE, TRUE, Absent, << VideoMedia >>), { Url_s1_av })
L_none == Lecture(MetaJson(Absent, FALSE, FALSE, Absent, << VideoMedia >>), {})

CourseItems ==
  { CourseItem(l, FALSE, << >>) : l \in { L_meta, L_page, L_none } }
    \cup { CourseItem(L_none, TRUE, << "part1", "part2" >>) }

Courses ==
  { Course(cls, skip, items) :
      cls \in Collections, skip \in BOOLEAN,
      items \in UNION { [1..n -> CourseItems] : n \in 2..MaxLectures } }

InitCourse ==
  /\ InitState({ L_none }, { FALSE }, { FALSE })
  /\ manifests_served = PipelineDocs
  /\ CourseInit(Courses)
  /\ PassInit({ << >> })

NextCourse ==
  \/ CollectionBegin
  \/ VideoBegin
  \/ ReadPage
  \/ VideoNext
  \/ CollectionEnd
  \/ FetchNext

SpecCourse == InitCourse /\ [][NextCourse]_vars

(* ------------- specification: collections of dated lectures ------------ *)

\* how many lessons a dated course has
MaxSorted == 3

\* lessons resolved from their metadata, with each shape of the date fields:
\* a start time, a null start time with a creation time, no start time and a
\* null creation time, a start time that holds no date, no date key at all
DatedLessons ==
  { Dated(CourseItem(L_meta, FALSE, << >>), d[1], d[2], NoKey) :
      d \in { << Text(Stamp2), NoKey >>, << Null, Text(Stamp1) >>, << NoKey, Null >>,
               << Text(NoStamp), Text(Stamp1) >>, << NoKey, NoKey >> } }

\* multi-part lessons without parts, whose group has a creation time or a
\* null one, and a multi-part lesson with a part
DatedGroups ==
  { Dated(CourseItem(L_none, TRUE, << >>), NoKey, NoKey, g) : g \in { Text(Stamp3), Null } }
    \cup { CourseItem(L_none, TRUE, << "part1" >>) }

\* lessons of the older portal: richMedia, startTime, title
DatedClassic ==
  { Dated(CourseItem(L_none, FALSE, << >>), st, NoKey, NoKey) :
      st \in { Text(Stamp2), Text(Stamp1) } }

SortCourses ==
  { Course(cls, skip, items) :
      cls \in { "videos.EchoCloudVideos", "course.EchoCloudVideos" }, skip \in BOOLEAN,
      items \in [1..MaxSorted -> DatedLessons \cup DatedGroups] }
    \cup { Course("EchoVideos", TRUE, items) : items \in [1..2 -> DatedClassic] }

InitSort ==
  /\ InitState({ L_none }, { FALSE }, { FALSE })
  /\ manifests_served = PipelineDocs
  /\ CourseInit(SortCourses)
  /\ PassInit({ << >> })

SpecSort == InitSort /\ [][NextCourse]_vars

(* ----------------------------- vtt_to_text.py --------------------------- *)

UpperCase ==
  << "A", "B", "C", "D", "E", "F", "G", "H", "I", "J", "K", "L", "M",
     "N", "O", "P", "Q", "R", "S", "T", "U", "V", "W", "X", "Y", "Z" >>
LowerCase ==
  << "a", "b", "c", "d", "e", "f", "g", "h", "i", "j", "k", "l", "m",
     "n", "o", "p", "q", "r", "s", "t", "u", "v", "w", "x", "y", "z" >>

\* \s, \w and str.lower() on one character
IsSpace(c) == c = " "
IsWordChar(c) == c \in Range(UpperCase) \cup Range(LowerCase) \cup Range(Digits) \cup { "_" }
ToLower(c) ==
  IF c \in Range(UpperCase) THEN LowerCase[CHOOSE i \in 1..26 : UpperCase[i] = c] ELSE c

\* str.strip()
RECURSIVE LStrip(_)
LStrip(t) == IF t # << >> /\ IsSpace(Head(t)) THEN LStrip(Tail(t)) ELSE t
Strip(t) == Reverse(LStrip(Reverse(LStrip(t))))

\* line.replace('.', '').isdigit()
IsNumeric(t) ==
  LET u == SelectSeq(t, LAMBDA c : c # ".")
  IN  u # << >> /\ \A i \in 1..Len(u) : IsDigit(u[i])

FillerWords ==
  { << "u", "m" >>, << "u", "h" >>, << "e", "r" >>, << "l", "i", "k", "e" >> }

\* where the match of a pattern that starts at position i ends, 0 if there is
\* none: "speaker" is <v\s+[^>]+>, "tag" is <[^>]+>, "filler" is
\* \b(um|uh|er|like)\b without regard to case
MatchEnd(pattern, t, i) ==
  IF pattern = "speaker"
  THEN IF i + 3 <= Len(t) /\ t[i] = "<" /\ t[i + 1] = "v" /\ IsSpace(t[i + 2])
          /\ t[i + 3] # ">"
       THEN Find(t, << ">" >>, i + 4)
       ELSE 0
  ELSE IF pattern = "tag"
  THEN IF i + 1 <= Len(t) /\ t[i] = "<" /\ t[i + 1] # ">"
       THEN Find(t, << ">" >>, i + 2)
       ELSE 0
  ELSE LET ends == { i + Len(w) - 1 : w \in
                       { w \in FillerWords :
                           /\ i + Len(w) - 1 <= Len(t)
                           /\ [ k \in 1..Len(w) |-> ToLower(t[i + k - 1]) ] = w
                           /\ (i = 1 \/ ~IsWordChar(t[i - 1]))
                           /\ (i + Len(w) - 1 = Len(t) \/ ~IsWordChar(t[i + Len(w)])) } }
       IN  IF ends = {} THEN 0 ELSE CHOOSE e \in ends : TRUE

\* re.sub(pattern, '', t), from position i on
RECURSIVE ReSub(_, _, _)
ReSub(pattern, t, i) ==
  IF i > Len(t) THEN << >>
  ELSE LET e == MatchEnd(pattern, t, i)
       IN  IF e # 0 THEN ReSub(pattern, t, e + 1)
           ELSE << t[i] >> \o ReSub(pattern, t, i + 1)

\* re.sub(r'\s+', ' ', t)
RECURSIVE CollapseSpaces(_)
CollapseSpaces(t) ==
  IF t = << >> THEN << >>
  ELSE IF IsSpace(Head(t))
  THEN << " " >> \o CollapseSpaces(LStrip(t))
  ELSE << Head(t) >> \o CollapseSpaces(Tail(t))

NoteWord == << "N", "O", "T", "E" >>
NoteConf == NoteWord \o << " ", "C", "O", "N", "F" >>
Arrow == << "-", "-", ">" >>

\* clean_vtt_line
CleanVttLine(line) ==
  LET untagged == ReSub("tag", ReSub("speaker", line, 1), 1)
  IN  IF StartsWith(untagged, NoteConf) THEN << >>
      ELSE Strip(CollapseSpaces(ReSub("filler", untagged, 1)))

\* ' '.join(paragraph)
RECURSIVE JoinLines(_)
JoinLines(par) ==
  IF par = << >> THEN << >>
  ELSE IF Len(par) = 1 THEN par[1].text
  ELSE par[1].text \o << " " >> \o JoinLines(Tail(par))

\* lines 50-74: the paragraphs made of the lines from position i on, given
\* text_content and current_paragraph; a line is kept with its position in
\* the file
RECURSIVE Paragraphs(_, _, _, _)
Paragraphs(lines, i, text_content, current_paragraph) ==
  LET flushed == IF current_paragraph = << >> THEN text_content
                 ELSE Append(text_content, current_paragraph)
  IN  IF i > Len(lines) THEN flushed
      ELSE LET line == Strip(lines[i])
               cleaned_line == CleanVttLine(line)
           IN  IF \/ line = << >>
                  \/ Find(line, Arrow, 1) # 0
                  \/ StartsWith(line, NoteWord)
                  \/ IsNumeric(line)
               THEN Paragraphs(lines, i + 1, flushed, << >>)
               ELSE IF cleaned_line = << >>
               THEN Paragraphs(lines, i + 1, text_content, current_paragraph)
               ELSE IF /\ current_paragraph # << >>
                       /\ \/ EndsWith(current_paragraph[Len(current_paragraph)].text,
                                       << "." >>)
                          \/ Len(current_paragraph) > 5
               THEN Paragraphs(lines, i + 1, flushed,
                               << [idx |-> i, text |-> cleaned_line] >>)
               ELSE Paragraphs(lines, i + 1, text_content,
                               Append(current_paragraph, [idx |-> i, text |-> cleaned_line]))

\* convert_vtt_to_text: the header is everything up to the first empty line
\* (start_idx stays 0 if there is none); the text written is the paragraphs
\* that are not blank, one per line
ConvertVttToText(lines) ==
  LET empty == { i \in 1..Len(lines) : Strip(lines[i]) = << >> }
      start_idx == IF empty = {} THEN 0 ELSE CHOOSE i \in empty : \A j \in empty : i <= j
      pars == Paragraphs(lines, start_idx + 1, << >>, << >>)
      texts == [ p \in 1..Len(pars) |-> JoinLines(pars[p]) ]
  IN  [ paragraphs |-> pars,
        text |-> SelectSeq(texts, LAMBDA t : Strip(t) # << >>) ]

\* convert_vtt_to_text is run on the file
ConvertVtt ==
  /\ vpc = "new"
  /\ vtt_out' = ConvertVttToText(vtt_lines)
  /\ vpc' = "written"
  /\ UNCHANGED << video_json, page_source, download_alternative_feeds, download_subtitles,
                  filename, manifests_served, status, built, url, found, resolved,
                  downloadState, courseState, passState, binaryState, vtt_lines >>

(* ------------- specification: the conversion of a transcript ------------ *)

\* most lines of a transcript after its header, and the longest run of text
\* lines
MaxVttLines == 3
MaxVttRun == 8

WebVtt == << "W", "E", "B", "V", "T", "T" >>
CueTiming == << "0", "0", ":", "0", "1", " ", "-", "-", ">", " ", "0", "0", ":", "0", "2" >>
\* cue identifiers, a comment, and text: plain, ending a sentence, with a
\* speaker tag and a filler word, a filler word alone, a tagged confidence
\* note
VttSamples ==
  { << >>, CueTiming, << "1" >>, << "1", ".", "5" >>,
    NoteWord \o << " ", "x" >>,
    << "o", "k" >>, << "H", "i", "." >>,
    << "<", "v", " ", "A", ">", "U", "m", " ", " ", "o", "k" >>,
    << "u", "h" >>,
    << "<", "b", ">" >> \o NoteConf }

\* transcript files: the header with or without the empty line after it,
\* then some lines; and the header with a run of text lines
VttFiles ==
  { head \o body : head \in { << WebVtt, << >> >>, << WebVtt >> },
                   body \in SeqsUpTo(VttSamples, MaxVttLines) }
    \cup { << WebVtt, << >> >> \o [ k \in 1..n |-> << "o", "k" >> ] : n \in 1..MaxVttRun }

InitVtt ==
  /\ InitPipeline({ L_none }, { FALSE }, { FALSE })
  /\ BinaryInit({ Linux64 }, { Disk("exec", NoFile, NoDir) })
  /\ VttInit(VttFiles)
  /\ manifests_served = PipelineDocs
  /\ CourseInit({ NoCourse })
  /\ PassInit({ << >> })

NextVtt == ConvertVtt

SpecVtt == InitVtt /\ [][NextVtt]_vars

(* ------------- specification: the download of the browser driver ------- *)

\* the disk before the first call: the binary there or not, a bin/temp left
\* by an earlier run or not
BinaryDisks ==
  { Disk(b, NoFile, t) : b \in { "none", "exec" }, t \in { NoDir, Dir(<< Notice >>) } }

InitBinary ==
  /\ InitPipeline({ L_none }, { FALSE }, { FALSE })
  /\ BinaryInit(OsSuffixes, BinaryDisks)
  /\ VttInit({ << >> })
  /\ manifests_served = PipelineDocs
  /\ CourseInit({ NoCourse })
  /\ PassInit({ << >> })

NextBinary ==
  \/ BinaryBegin
  \/ Wget
  \/ Unzip
  \/ CopyAndClean
  \/ BinaryEnd

SpecBinary == InitBinary /\ [][NextBinary]_vars

(* --------------- specification: the pass over a course's data ----------- *)

Date1 == "2024-03-01"
Date2 == "2024-03-08"

\* two lessons of the same day with different titles
La == LessonItem(1, << "A" >>, Timestamp(Date1), Timestamp(Date1), "video", FALSE)
Lb == LessonItem(2, << "B" >>, Timestamp(Date1), Timestamp(Date2), "video", FALSE)
\* a null startTimeUTC and a title with a character that is stripped
Lc == LessonItem(3, << "B", ":" >>, NullField, Timestamp(Date2), "video", FALSE)
\* no date field at all
Ld == LessonItem(4, << "A" >>, NoField, NoField, "video", FALSE)
\* a lesson no content has been added to
Lf == LessonItem(5, << "B" >>, Timestamp(Date2), Timestamp(Date2), "video", TRUE)
\* no media of type Video, no medias key, a null createdAt
Ln == LessonItem(6, << "A" >>, Timestamp(Date2), Timestamp(Date2), "novideo", FALSE)
Lx == LessonItem(7, << "A" >>, Timestamp(Date2), Timestamp(Date2), "absent", FALSE)
Ly == LessonItem(8, << "B" >>, NoField, NullField, "video", FALSE)

FolderHome == << "H", "o", "m", "e" >>
FolderWeek == << "W", "1" >>
FolderCourse == << "c", "s" >>

PassTrees ==
  { << La, Lb >>,
    << GroupItem(FolderHome, << Lc, Ld >>), La >>,
    << La, Lf, GroupItem(FolderWeek, << Lb >>) >>,
    << GroupItem(FolderWeek, << Lf, Lc >>), La, GroupItem(FolderHome, << Ld >>) >>,
    << Lx, La >>,
    << La, Lx, Ln, Ly >>,
    << GroupItem(FolderWeek, << GroupItem(FolderCourse, << Lb >>), Lc >>), Ld >> }

InitPass ==
  /\ InitState({ L_none }, { FALSE }, { FALSE })
  /\ manifests_served = PipelineDocs
  /\ CourseInit({ NoCourse })
  /\ PassInit(PassTrees)

NextPass ==
  \/ GetVideosBegin
  \/ QueuePop
  \/ PassItem
  \/ ForEnd
  \/ GetVideosEnd
  \/ GetVideosAgain

SpecPass == InitPass /\ [][NextPass]_vars

(* ======================= claims about resolution ======================== *)

\* the direct-file URLs the page embeds
FoundMp4 == { u \in page_source : EndsWith(u, DotMp4) }

Min(a, b) == IF a < b THEN a ELSE b

\* the last resolution ran and returned or raised
Resolved == found.kind # "none"

\* C1: the four strategies run in the order 1, 2, 3, 4 and resolution stops at
\* the first that yields candidates: when the metadata-manifest strategy (2)
\* yields a non-empty list, strategies 3 and 4 are not run and the value
\* returned is built from that list, whatever the page contains.
C1_StopsAtFirstSuccess ==
  Resolved =>
    /\ (found.won = 1 => found.tried = << 1 >>)
    /\ (found.s2.kind = "list" /\ Len(found.s2.val) > 0 =>
          /\ found.tried = << 1, 2 >>
          /\ [kind |-> found.kind, val |-> found.val] = PickManifests(found.s2.val))
    /\ (found.won = 3 => found.tried = << 1, 2, 3 >>)

\* the lecture's metadata holds both a non-empty direct-file list and manifests
BothInMetadata ==
  /\ video_json.primaryFiles.present
  /\ Len(video_json.primaryFiles.s3Urls) > 0
  /\ video_json.manifests.present
  /\ Len(video_json.manifests.uris) > 0

\* C2: when the metadata holds both a non-empty direct-file list and manifest
\* uris, resolution returns one direct file of that list, for every page.
C2_DirectFileWins ==
  (status # "new" /\ ~download_subtitles /\ BothInMetadata) =>
    /\ status = "built"
    /\ url.kind = "str"
    /\ Len(url.val) = 1
    /\ url.val[1] \in Range(video_json.primaryFiles.s3Urls)
    /\ found.won = 1

C2_Witness ==
  /\ status = "built" /\ BothInMetadata
  /\ video_json.hasVideo /\ video_json.hasAvailableVideo
  /\ page_source = { Url_a_hd1, Url_s1_av }
  /\ url = [kind |-> "str", val |-> << S3_hd >>]

\* C3 as stated: the page-scan file strategy returns the found direct-file
\* URLs in descending order, cut to two; the page with a.sd1, a.hd2 and a.hd1
\* gives [a.sd1, a.hd2] and, alternative feeds off, a.sd1 is selected.
C3_PageScanDescending ==
  found.won = 3 =>
    /\ Len(found.val) = Min(2, Cardinality(FoundMp4))
    /\ Range(found.val) \subseteq FoundMp4
    /\ \A i, j \in 1..Len(found.val) : i < j => StrLess(found.val[j], found.val[i])
    /\ \A u \in FoundMp4 \ Range(found.val) : \A v \in Range(found.val) : StrLess(u, v)
    /\ (FoundMp4 = PageMp4Urls =>
          /\ found.val = << Url_a_sd1, Url_a_hd2 >>
          /\ SelectUrls(url, FALSE) = << UrlValue(Url_a_sd1) >>)

\* C3 amended: the page-scan file strategy returns the found direct-file URLs
\* in ascending order, cut to two; the page with a.sd1, a.hd2 and a.hd1 gives
\* [a.hd1, a.hd2] and, alternative feeds off, a.hd1 is selected.
C3_PageScanAscending ==
  found.won = 3 =>
    /\ Len(found.val) = Min(2, Cardinality(FoundMp4))
    /\ Range(found.val) \subseteq FoundMp4
    /\ \A i, j \in 1..Len(found.val) : i < j => StrLess(found.val[i], found.val[j])
    /\ \A u \in FoundMp4 \ Range(found.val) : \A v \in Range(found.val) : StrLess(v, u)
    /\ (FoundMp4 = PageMp4Urls =>
          /\ found.val = << Url_a_hd1, Url_a_hd2 >>
          /\ SelectUrls(url, FALSE) = << UrlValue(Url_a_hd1) >>)

C3_Witness ==
  /\ found.won = 3
  /\ FoundMp4 = PageMp4Urls
  /\ url = [kind |-> "list", val |-> << Url_a_hd1, Url_a_hd2 >>]

\* C5: two executions of resolution on the same metadata and the same page
\* text, with every page read succeeding, return the same URLs in the same order.
C5_Deterministic == Cardinality(resolved) <= 1

(* ======================== claims about download ========================= *)

\* download() is in its loop or has just returned (or raised)
InDownload == pc = "loop" \/ (pc = "idle" /\ final_result # "none")

\* the file name of the i-th feed (i from 1)
FeedName(i) == IF download_alternative_feeds THEN filename \o ToString(i) ELSE filename

\* the requests of the current run that fetch a resolved url itself
StreamRequests == SelectSeq(netlog, LAMBDA r : r.kind \in { "manifest", "file" })

\* the raw artifacts and attached media files a run may write
FeedFiles(i) == { FinalPath(FeedName(i)), AudioPath(FeedName(i)), VideoPath(FeedName(i)) }
MediaFiles == { Dirty(m.title) : m \in { x \in Range(video_json.medias) : x.mediaType # "Video" } }

\* C4: in video mode, with alternative feeds off exactly the first candidate is
\* passed to download_single, under the name <filename>, even when resolution
\* found two; with the flag on at most two are, in candidate order, the i-th
\* under the name <filename><i>. Every url is requested at most once, in that
\* order and for that name, and is requested unless its <name>.mp4 existed.
C4_FeedSelection ==
  (InDownload /\ ~download_subtitles /\ url.kind \in { "str", "list" }) =>
    /\ Len(urls) = IF download_alternative_feeds THEN Len(url.val) ELSE 1
    /\ Len(urls) <= 2
    /\ \A i \in 1..Len(urls) : urls[i] = UrlValue(url.val[i])
    /\ \E at \in [1..Len(StreamRequests) -> 1..counter] :
         /\ \A j, k \in 1..Len(StreamRequests) : j < k => at[j] < at[k]
         /\ \A j \in 1..Len(StreamRequests) :
              /\ StreamRequests[j].src = url.val[at[j]]
              /\ StreamRequests[j].target = FinalPath(FeedName(at[j]))
    /\ (pc = "idle" /\ final_result # "raised" =>
          \A i \in 1..Len(urls) :
             \/ FinalPath(FeedName(i)) \in hist.fs0
             \/ \E j \in 1..Len(StreamRequests) :
                  StreamRequests[j].target = FinalPath(FeedName(i)))
    /\ fs \ hist.fs0 \subseteq MediaFiles \cup UNION { FeedFiles(i) : i \in 1..Len(urls) }

C4_Witness ==
  /\ download_alternative_feeds /\ ~download_subtitles
  /\ pc = "idle" /\ final_result = "true"
  /\ url = [kind |-> "list", val |-> << Url_a_hd1, Url_a_hd2 >>]
  /\ Len(StreamRequests) = 2
  /\ { FinalPath(filename \o "1"), FinalPath(filename \o "2") } \subseteq fs

\* every strategy ran and none gave a candidate
Exhausted == found.tried = << 1, 2, 3, 4 >> /\ found.won = 0

\* C6: when no strategy yields a candidate the lecture is not fetched: no
\* stream request and no mux invocation is made for it and download_single is
\* never called with a value that is not a URL.
C6_ExhaustedIsNotDownloaded ==
  Exhausted =>
    /\ StreamRequests = << >>
    /\ muxlog = << >>
    /\ (last.op = "download_single" => last.url.kind = "str")

\* C7: download_single in video mode, called when <filename>.mp4 exists,
\* returns True, makes no network request, does not invoke the mux tool and
\* leaves the set of files as it was.
C7_SkipExisting ==
  (last.op = "download_single" /\ ~download_subtitles /\ FinalPath(last.name) \in last.before) =>
    /\ last.ret = "true"
    /\ last.net = << >>
    /\ last.mux = << >>
    /\ last.after = last.before

C7_Witness ==
  /\ last.op = "download_single" /\ ~download_subtitles
  /\ FinalPath(last.name) \in last.before
  /\ last.url.kind = "str" /\ EndsWith(last.url.text, DotM3u8)
  /\ last.ret = "true" /\ fs = last.before

\* every final container and attached media file of the lecture is in f
OutputsPresent(f) ==
  /\ \A i \in 1..Len(SelectUrls(url, download_alternative_feeds)) : FinalPath(FeedName(i)) \in f
  /\ MediaFiles \subseteq f

\* C8 as stated: a run of download() that directly follows another one on the
\* same lecture makes no network request and no mux invocation, whatever the
\* first run's outcome.
C8_SecondRunIdle ==
  (run >= 2 /\ hist.inARow /\ ~download_subtitles /\ url.kind \in { "str", "list" }) =>
    netlog = << >> /\ muxlog = << >>

\* C8 amended: a run of download() that directly follows another one and
\* starts with every selected feed's <name>.mp4 and every attached media file
\* on disk makes no network request and no mux invocation, returns True and
\* leaves the files as they were.
C8_SecondRunIdleWhenOutputsExist ==
  (run >= 2 /\ hist.inARow /\ ~download_subtitles /\ OutputsPresent(hist.fs0)) =>
    /\ netlog = << >>
    /\ muxlog = << >>
    /\ (InDownload => fs = hist.fs0 /\ final_result = "true")

C8_Witness ==
  /\ run = 2 /\ hist.inARow /\ ~download_subtitles /\ OutputsPresent(hist.fs0)
  /\ pc = "idle" /\ final_result = "true" /\ counter = 2
  /\ url = [kind |-> "list", val |-> << Url_s1_av, Url_s2_av >>]
  /\ MediaFiles # {}
  /\ netlog = << >>

\* C9: when the mux tool is unavailable, combine_audio_video leaves the
\* combined output path as it was: absent if it was absent, present if it was
\* present.
C9_UnavailableKeepsOutput ==
  (last.mux # << >> /\ last.mux[1].tool = "unavailable") =>
    (last.mux[1].output \in last.before <=> last.mux[1].output \in last.after)

\* the raw artifact paths of the lecture's feeds
RawArtifacts ==
  UNION { { AudioPath(n), VideoPath(n) } : n \in { filename, filename \o "1", filename \o "2" } }

\* C10: when the mux tool is unavailable or fails, combine_audio_video returns
\* False without raising and download_single leaves the raw artifacts on disk;
\* a call removes a raw artifact only after a successful mux.
C10_MuxFailureKeepsArtifacts ==
  /\ (last.mux # << >> /\ last.mux[1].tool \in { "unavailable", "failed" } =>
        /\ ~last.mux[1].ok
        /\ last.ret # "raised"
        /\ (last.op = "combine" => last.ret = "false")
        /\ (last.op = "download_single" => Range(last.mux[1].inputs) \subseteq last.after)
        /\ last.before \cap RawArtifacts \subseteq last.after)
  /\ ((last.before \ last.after) \cap RawArtifacts # {} =>
        /\ last.op = "download_single"
        /\ last.mux # << >> /\ last.mux[1].tool = "ok" /\ last.mux[1].ok
        /\ last.mux[1].output \in last.after)

C10_Witness ==
  /\ last.op = "download_single"
  /\ last.mux # << >> /\ last.mux[1].tool = "failed"
  /\ Len(last.mux[1].inputs) = 2
  /\ Range(last.mux[1].inputs) \subseteq fs
  /\ FinalPath(last.name) \notin fs

(* ============================ claims about the mux ====================== *)

\* C11: after a successful mux in download_single the final container
\* <filename>.mp4 exists and neither raw artifact of the call (the inputs of
\* the mux: the video and, if the manifest had one, the audio) does; whenever
\* the mux tool is started no file is at its target path (a stale one was
\* removed before), and a successful mux leaves a file there.
C11_MuxSuccessKeepsOnlyFinal ==
  last.mux # << >> =>
    /\ ~last.mux[1].stale
    /\ (last.mux[1].ok => last.mux[1].output \in last.after)
    /\ (last.op = "download_single" /\ last.mux[1].ok =>
          /\ last.mux[1].output = FinalPath(last.name)
          /\ VideoPath(last.name) \in Range(last.mux[1].inputs)
          /\ Range(last.mux[1].inputs) \cap last.after = {})

C11_Witness ==
  /\ last.op = "download_single"
  /\ last.mux # << >> /\ last.mux[1].ok /\ Len(last.mux[1].inputs) = 2
  /\ FinalPath(last.name) \in fs
  /\ AudioPath(last.name) \notin fs /\ VideoPath(last.name) \notin fs

(* ========================= claims about transfers ======================= *)

\* the requests of kind k made by the last call
Requested(k) == { i \in 1..Len(last.net) : last.net[i].kind = k }

\* C12: for a manifest with an audio and a video variant, a call of
\* download_single that starts the audio transfer also carries out the video
\* transfer, whether or not the audio transfer failed; and an audio artifact
\* that was completed stays on disk when the video transfer fails.
C12_AudioFailureKeepsVideo ==
  (last.op = "download_single" /\ Requested("audio") # {}) =>
    /\ Requested("video") # {}
    /\ (last.ret = "raised" /\ Requested("video") # {} => AudioPath(last.name) \in last.after)

(* ==================== claims about a course's collection ================ *)

\* C13: the page-read loop keeps one counter per kind of failure, each
\* bounded by max_attempts: the loop goes on reading while fewer than
\* max_attempts timeouts and fewer than max_attempts stale-content errors have
\* occurred, whatever the number of the other kind, and it re-raises the
\* max_attempts-th failure of a kind.
C13_IndependentBoundedCounters ==
  /\ wait.refresh_attempt \in 1..max_attempts
  /\ wait.stale_attempt \in 1..max_attempts
  /\ (wait.state \in { "reading", "returned" } \/ wait.raised = "error" =>
        /\ wait.timeouts < max_attempts /\ wait.stales < max_attempts
        /\ wait.refresh_attempt = wait.timeouts + 1
        /\ wait.stale_attempt = wait.stales + 1)
  /\ (wait.state = "reading" => wait.reads = wait.timeouts + wait.stales)
  /\ (wait.state = "raised" /\ wait.raised = "timeout" =>
        wait.timeouts = max_attempts /\ wait.stales < max_attempts)
  /\ (wait.state = "raised" /\ wait.raised = "stale" =>
        wait.stales = max_attempts /\ wait.timeouts < max_attempts)

C13_Witness ==
  /\ wait.strategy = 4
  /\ wait.state = "raised" /\ wait.raised = "timeout"
  /\ wait.timeouts = max_attempts /\ wait.stales = max_attempts - 1
  /\ wait.reads = 2 * max_attempts - 1

\* a page-read loop of the lecture being built has reached one of its bounds
BoundExceeded == wait.state = "raised" /\ wait.raised \in { "timeout", "stale" }

\* C14: when a lecture's resolution exceeds the render-timeout or the
\* stale-content bound, only that lecture fails: the constructor of the
\* collection (EchoVideos, or EchoCloudVideos with its default
\* skip_video_on_error) does not raise and goes on to the remaining lectures.
C14_BoundFailsOnlyLecture ==
  (course.cls = "EchoVideos" \/ course.skip_video_on_error) =>
    /\ (BoundExceeded => cpc # "raised")
    /\ (cpc = "done" => ci = Len(course.videos_json))

\* C15: with skip_video_on_error on (its default), a failure while one
\* lecture is processed does not raise out of the per-lecture operation: the
\* collection's constructor does not raise, and download() of a lecture whose
\* resolution gave urls returns instead of raising.
C15_SkipOnErrorNeverRaises ==
  course.skip_video_on_error =>
    /\ (course.cls # "EchoVideos" => cpc # "raised")
    /\ (url.kind \in { "str", "list" } => final_result # "raised")

\* the lectures whose object the constructor began to build, did not append
\* to self._videos and went on from: dropped because of an exception
Dropped ==
  { k \in 1..ci :
      /\ \A i \in 1..Len(videos) : videos[i].lecture # k
      /\ k < ci \/ cpc \in { "loop", "done" } }

\* C16: every lecture dropped because of an error leaves a recorded reason
\* that carries the lecture's identity.
C16_DroppedLectureIsRecorded ==
  \A k \in Dropped : \E i \in 1..Len(printed) : printed[i].lecture = k

\* C17: the resolution of lecture k+1 does not begin before lecture k's
\* artifacts are written (its download() was run) or lecture k has ended
\* skipped or failed.
C17_FetchBeforeNextResolution ==
  \A k \in 1..(ci - 1) : k \in fetched \/ k \in Dropped

\* the titles get_all_parts() is to give for a multi-part lesson
PartTitles(item) ==
  [ j \in 1..Len(item.lessons) |->
      [self |-> FALSE, title |-> GroupName \o " - " \o item.lessons[j]] ]

\* C18: an EchoCloudVideo built from multi-part metadata with n >= 1 parts is
\* built without an exception and get_all_parts() gives its n sub-videos in
\* metadata order, each titled '<group> - <part title>'; a lesson that is not
\* multi-part gives exactly itself.
C18_MultiPartFansOut ==
  course.cls = "videos.EchoCloudVideos" =>
    /\ \A i \in 1..Len(videos) :
         ~course.videos_json[videos[i].lecture].multipart =>
            videos[i].parts = << [self |-> TRUE, title |-> Title] >>
    /\ \A k \in 1..ci :
         LET item == course.videos_json[k]
         IN  (item.multipart /\ Len(item.lessons) >= 1 /\ (k < ci \/ cpc # "init")) =>
               \E i \in 1..Len(videos) :
                  videos[i].lecture = k /\ videos[i].parts = PartTitles(item)

(* ========================= claims about manifests ======================= *)

\* the artifact transfers of the last call, in order
ArtifactTransfers == SelectSeq(last.net, LAMBDA r : r.kind \in { "audio", "video" })

\* C19: when the manifest cannot be fetched, cannot be parsed or has no video
\* entry, download_single returns False, transfers no artifact, does not
\* invoke the mux tool and leaves the files as they were.
C19_ManifestFailureDoesNothing ==
  (last.op = "download_single" /\ last.manifest \in { "unfetched", "error", "novideo" }) =>
    /\ last.ret = "false"
    /\ Len(last.net) = 1
    /\ ArtifactTransfers = << >>
    /\ last.mux = << >>
    /\ last.after = last.before

C19_Witness ==
  /\ last.op = "download_single" /\ last.manifest = "novideo"
  /\ last.ret = "false"
  /\ fs = last.before
  /\ FinalPath(last.name) \notin fs

\* C20: when the manifest has a video and no audio entry and the transfer
\* succeeds, download_single transfers the video only, gives the mux tool the
\* video as its only input and the mux, if it succeeds, produces
\* <filename>.mp4; with both entries it transfers the audio and the video
\* and gives the mux tool the video first and the audio second.
C20_TransfersAndMuxInputs ==
  (last.op = "download_single" /\ last.manifest \in { "video", "both" }
     /\ last.ret # "raised") =>
    /\ Len(last.mux) = 1
    /\ last.mux[1].output = FinalPath(last.name)
    /\ (last.mux[1].ok => FinalPath(last.name) \in last.after)
    /\ (last.manifest = "video" =>
          /\ Len(ArtifactTransfers) = 1
          /\ ArtifactTransfers[1].target = VideoPath(last.name)
          /\ last.mux[1].inputs = << VideoPath(last.name) >>)
    /\ (last.manifest = "both" =>
          /\ Len(ArtifactTransfers) = 2
          /\ { ArtifactTransfers[i].target : i \in 1..2 }
               = { AudioPath(last.name), VideoPath(last.name) }
          /\ last.mux[1].inputs = << VideoPath(last.name), AudioPath(last.name) >>)

C20_Witness ==
  /\ last.op = "download_single" /\ last.manifest = "video"
  /\ Len(ArtifactTransfers) = 1
  /\ last.mux # << >> /\ last.mux[1].ok /\ last.mux[1].inputs = << VideoPath(last.name) >>
  /\ FinalPath(last.name) \in fs

(* C21: a manifest with exactly one video entry and exactly one audio entry
   is interpreted as the pair of the two URIs as they are written in it (the
   lines that follow the two entry tags); a manifest without a video-bearing
   entry is signalled as a parse failure and the call returns False. *)
After(lines, tag) ==
  { lines[i + 1] : i \in { j \in 1..(Len(lines) - 1) : lines[j] = tag } }

Count(lines, tag) == Cardinality({ j \in 1..Len(lines) : lines[j] = tag })

C21_ManifestInterpreter ==
  LET ls == last.parsed.lines
  IN  ls # << >> =>
        /\ ( Count(ls, EntryVideo) = 1 /\ Count(ls, EntryAudio) = 1
             /\ Count(ls, EntryCombined) = 0
               => /\ last.parsed.video # << >> /\ last.parsed.audio # << >>
                  /\ After(ls, EntryVideo) = { last.parsed.video[1] }
                  /\ After(ls, EntryAudio) = { last.parsed.audio[1] }
                  /\ last.manifest = "both" )
        /\ ( Count(ls, EntryVideo) = 0 /\ Count(ls, EntryCombined) = 0
               => /\ last.parsed.error
                  /\ last.manifest \in { "error", "novideo" }
                  /\ last.ret = "false" )

C21_Witness ==
  /\ last.parsed.lines = D_both
  /\ last.parsed.video = << "video.manifest" >>
  /\ last.parsed.audio = << "audio.manifest" >>

C21_WitnessNoVideo ==
  /\ last.parsed.lines = D_audioOnly
  /\ last.ret = "false"

(* ================= claims about the pass over a course ================== *)

\* the lessons passed without a transcript request because they were taken
\* for already processed
TakenForProcessed == { k \in 1..Len(glog) : glog[k].act \in { "dup", "exists" } }

(* C22: a lesson is taken for already processed, and its transcript fetch
   skipped, only when the artifact named by its own key (date and sanitized
   title) exists; so two lessons of the same date with different titles are
   both fetched. *)
C22_SkipOnlyOnOwnKey ==
  \A k \in TakenForProcessed :
    /\ glog[k].own # << >>
    /\ GTxtPath(glog[k].own[1]) \in glog[k].before

(* ================== claims about the final container =================== *)

\* the final paths of the lecture's feeds
FinalPaths == { FinalPath(n) : n \in { filename, filename \o "1", filename \o "2" } }

(* C23: a transfer that does not complete leaves no file at a final path
   <filename>.mp4: a final path that exists holds a completely written file,
   and a call never skips its url for an incompletely written <filename>.mp4. *)
C23_NoPartialFinalFile ==
  /\ partial \cap FinalPaths = {}
  /\ ( last.op = "download_single" /\ last.url.kind = "str" /\ last.net = << >>
         => FinalPath(last.name) \notin partial )

\* a call of download_single in video mode on a resolved url
VideoCall == last.op = "download_single" /\ ~download_subtitles /\ last.url.kind = "str"

\* the call invoked the mux tool and the tool was missing or failed
MuxFailed == last.mux # << >> /\ last.mux[1].tool \in { "unavailable", "failed" }

(* C30: download_single in video mode returns True only if <filename>.mp4
   exists when it returns; a manifest that could not be fetched or parsed or
   has no video entry, and a mux tool that is missing or fails, are reported
   as False. *)
C30_TrueOnlyWithFinalFile ==
  VideoCall =>
    /\ (last.ret = "true" => FinalPath(last.name) \in last.after)
    /\ (last.manifest \in { "unfetched", "error", "novideo" } => last.ret = "false")
    /\ (MuxFailed => last.ret = "false")

(* ================== more claims about resolution ======================= *)

(* C24: the direct-file strategy returns exactly one URL, the last entry of
   the metadata's primaryFiles list in the order given; when the list is
   empty or the metadata has none, it fails and the next strategy is tried. *)
C24_LastDirectFileWins ==
  Resolved =>
    IF video_json.primaryFiles.present /\ Len(video_json.primaryFiles.s3Urls) > 0
    THEN /\ found.kind = "str"
         /\ found.val = << video_json.primaryFiles.s3Urls[Len(video_json.primaryFiles.s3Urls)] >>
         /\ found.tried = << 1 >>
    ELSE /\ found.won # 1
         /\ Len(found.tried) >= 2
         /\ found.tried[1] = 1 /\ found.tried[2] = 2

C24_Witness ==
  /\ status = "built"
  /\ video_json.primaryFiles.s3Urls = << S3_hd, S3_sd >>
  /\ url = [kind |-> "str", val |-> << S3_sd >>]

(* C25: a failure of strategy 1, 2 or 3, an exception or a not-found result,
   never leaves _loop_find_m3u8_url: the next strategy is tried; resolution
   raises only after the fourth strategy has run. *)
C25_OnlyFourthFailureEscapes ==
  Resolved =>
    /\ found.tried \in { << 1 >>, << 1, 2, 3 >>, << 1, 2, 3, 4 >> }
    /\ (FromJsonMp4(video_json).raised => Len(found.tried) >= 3)
    /\ (Len(found.tried) >= 3 /\ found.won # 3 => Len(found.tried) = 4)
    /\ (found.kind = "raised" => found.tried = << 1, 2, 3, 4 >> /\ found.won = 0)

\* the metadata has neither direct files nor manifests, the page holds direct
\* files but reading it for them failed, and the fourth strategy gave the result
C25_Witness ==
  /\ found.tried = << 1, 2, 3, 4 >> /\ found.won = 4
  /\ found.s2.kind = "raised"
  /\ FoundMp4 # {}

(* C26: the embedded-manifest strategy gives, for every manifest uri of the
   metadata and in the same order, a uri with the same scheme and path whose
   host is "content." followed by the network location of the hostname. *)
C26_RewriteKeepsSchemeAndPath ==
  found.s2.kind = "list" =>
    /\ Len(found.s2.val) = Len(video_json.manifests.uris)
    /\ \A i \in 1..Len(found.s2.val) :
         /\ UrlScheme(found.s2.val[i]) = UrlScheme(video_json.manifests.uris[i])
         /\ UrlPath(found.s2.val[i]) = UrlPath(video_json.manifests.uris[i])
         /\ UrlNetloc(found.s2.val[i])
              = << "c", "o", "n", "t", "e", "n", "t", "." >> \o UrlNetloc(Hostname)

C26_Witness ==
  /\ video_json.manifests.uris = << Man_q, Man_s1 >>
  /\ Len(found.s2.val) = 2
  /\ UrlScheme(found.s2.val[1]) = << "h", "t", "t", "p" >>
  /\ UrlScheme(found.s2.val[2]) = << "h", "t", "t", "p", "s" >>

\* the manifest candidates of the page that name a combined stream
FoundAv == { u \in BruteForceGetUrl(page_source, M3u8, "ok").urls : EndsWith(u, AvM3u8) }

(* C27: when resolution returns manifest uris, each ends with "av.m3u8", at
   most two are returned, and they are the first two of the filtered
   candidates in the reverse of their text order; when no candidate has the
   suffix, no source is returned. *)
C27_ManifestsReversedTopTwo ==
  (Resolved /\ found.tried = << 1, 2, 3, 4 >> /\ found.kind # "raised") =>
    IF FoundAv = {}
    THEN found.kind = "false"
    ELSE /\ found.kind = "list"
         /\ \A i \in 1..Len(found.val) : EndsWith(found.val[i], AvM3u8)
         /\ Len(found.val) <= 2
         /\ found.val = Take(Reverse(Sorted(FoundAv)), 2)

(* ======================= claims about cookies ========================== *)

CookieReads == SelectSeq(cookielog, LAMBDA c : c.use = "read")
CookieTransfers == SelectSeq(cookielog, LAMBDA c : c.use # "read")

(* C28: during one lecture's download the cookies are read from the
   rendering session exactly once, and every transfer of the lecture is sent
   with that one snapshot, whatever happens to the session's cookie jar
   meanwhile. *)
C28_OneCookieSnapshot ==
  InDownload =>
    /\ Len(CookieReads) = 1
    /\ \A i \in 1..Len(CookieTransfers) : CookieTransfers[i].jar = session_cookies

(* C29: the page-read retry loop ends for every sequence of page-load
   outcomes: every turn is one more page load, and after at most
   2 * max_attempts - 1 loads (max_attempts - 1 tolerated failures of each
   kind and a last attempt) the loop has returned or raised. *)
C29_RetryLoopTerminates ==
  /\ wait.reads <= 2 * max_attempts - 1
  /\ (wait.state = "reading" => wait.reads < 2 * max_attempts - 1)
  /\ (wait.reads = 2 * max_attempts - 1 => wait.state \in { "returned", "raised" })

\* the last possible attempt, after all tolerated failures, reads the page
C29_Witness ==
  /\ wait.state = "returned"
  /\ wait.reads = 2 * max_attempts - 1
  /\ wait.timeouts = max_attempts - 1 /\ wait.stales = max_attempts - 1


(* ================= claims about the counters of the pass ================ *)

\* get_videos has been left: by its last line or by an exception
TraversalEnded == gpc \in { "done", "raised" }

(* C31: in get_videos the processed and skipped counters never add up to
   more than the lecture count, and they add up to exactly the lecture count
   when the traversal has ended, whatever future lessons, duplicate dates or
   transcript errors were met on the way. *)
C31_CountersComplete ==
  /\ processed_lectures + skipped_lectures <= lecture_count
  /\ ( TraversalEnded => processed_lectures + skipped_lectures = lecture_count )


(* ================ claims about the end of the traversal ================= *)

\* the lessons of a course in breadth-first order: the lessons of a folder in
\* their order, then those of the folders met, folder by folder
RECURSIVE BreadthFirst(_)
BreadthFirst(q) ==
  IF q = << >> THEN << >>
  ELSE LET its == Head(q)
           groups == SelectSeq(its, LAMBDA i : ~IsLesson(i))
       IN  SelectSeq(its, IsLesson)
             \o BreadthFirst(Tail(q) \o [ k \in 1..Len(groups) |-> groups[k].lessons ])

TraversalOrder == BreadthFirst(<< videos_tree >>)

\* the ids of the lessons in front of the first future lesson
BeforeFirstFuture ==
  LET ord == TraversalOrder
      fut == { k \in 1..Len(ord) : ord[k].future }
      n == IF fut = {} THEN Len(ord) ELSE (CHOOSE m \in fut : \A j \in fut : m <= j) - 1
  IN  [ k \in 1..n |-> ord[k].id ]

IsPrefixOf(s, t) == Len(s) <= Len(t) /\ \A k \in 1..Len(s) : s[k] = t[k]

(* C32: once the first future lesson (its page says that no content has been
   added) is reached in breadth-first order the traversal stops: the
   processed video list holds only lessons in front of it, in traversal
   order; no transcript is requested for it or a lesson behind it; and no
   folder is dequeued after it was found. *)
C32_StopsAtFirstFuture ==
  [][ /\ IsPrefixOf([ k \in 1..Len(processed_videos') |-> processed_videos'[k].id ],
                    BeforeFirstFuture')
      /\ \A k \in 1..Len(glog') :
           glog'[k].net # << >> => glog'[k].id \in Range(BeforeFirstFuture')
      /\ ( found_future_lecture /\ found_future_lecture'
             => UNCHANGED << queue, folder, processed_videos, glog, tfs >> ) ]_vars

\* the pass has ended on a future lesson with a folder still queued and
\* lessons behind the future one
C32_Witness ==
  /\ found_future_lecture /\ gpc = "done"
  /\ queue # << >>
  /\ Len(processed_videos) = 1
  /\ Len(TraversalOrder) > Len(processed_videos) + 1
  /\ glog[Len(glog)].act = "future"


(* ==================== claims about subtitles mode ====================== *)

\* a step of download(): its beginning, a call of download_single, its return
DownloadStep == pc = "loop" \/ pc' = "loop"

(* C33: in subtitles mode the construction of the lecture object resolves no
   stream, and download() makes no video, audio or attached-media transfer
   and invokes no mux; the only files it can create are <filename>.vtt in
   the dirty directory and <filename>.txt in the clean directory. *)
C33_SubtitlesModeOnlyTranscript ==
  [][ download_subtitles
        => /\ ( built' # built
                  => /\ found' = NoResolution
                     /\ url'.kind = "none"
                     /\ resolved' = resolved )
           /\ ( DownloadStep
                  => /\ \A k \in 1..Len(netlog') : netlog'[k].kind \in { "vtt", "vtthead" }
                     /\ muxlog' = << >>
                     /\ (fs' \ fs) \subseteq { VttPath(filename), TxtPath(filename) }
                     /\ fs \subseteq fs'
                     /\ partial' = partial ) ]_vars

\* a download in subtitles mode of a lecture with slides attached has
\* fetched the transcript
C33_Witness ==
  /\ download_subtitles /\ pc = "idle" /\ run >= 1
  /\ last.op = "download_single" /\ last.ret = "true"
  /\ Len(netlog) = 2
  /\ { VttPath(filename), TxtPath(filename) } \subseteq fs
  /\ \E k \in 1..Len(video_json.medias) : video_json.medias[k].mediaType # "Video"


(* C34: the transcript artifacts stay consistent across reruns of
   download_single in subtitles mode: a run that returns True leaves
   clean/<filename>.txt wherever it leaves dirty/<filename>.vtt, so a run that
   finds only the raw .vtt makes the clean text and is not kept from it by
   the raw file. *)
C34_CleanTextFollowsRaw ==
  ( /\ download_subtitles
    /\ last.op = "download_single" /\ last.ret = "true"
    /\ VttPath(last.name) \in last.after )
    => TxtPath(last.name) \in last.after


(* ===================== claims about lecture dates ====================== *)

\* the lessons of the course whose object is built: every lesson of the older
\* portal once the constructor has returned; none in course.py's class, which
\* cannot name the lecture class; else the lessons resolved from their
\* metadata and the multi-part lessons without parts
Succeeded ==
  { k \in 1..Len(course.videos_json) :
      LET item == course.videos_json[k]
      IN  IF course.cls = "EchoVideos" THEN TRUE
          ELSE IF course.cls = "course.EchoCloudVideos" THEN FALSE
          ELSE IF item.multipart THEN item.lessons = << >>
          ELSE ~FromJsonMp4(item.json).raised }

(* C35: after construction the video list of EchoVideos / EchoCloudVideos is
   in non-decreasing order of the lectures' date strings, holds exactly the
   lectures whose construction succeeded, each once, and lectures of equal
   dates are in their input order. *)
C35_SortedByDateStable ==
  cpc = "done" =>
    /\ \A i, j \in 1..Len(videos) :
         i < j => /\ ~StrLess(videos[j].date, videos[i].date)
                  /\ videos[i].lecture # videos[j].lecture
                  /\ ( videos[i].date = videos[j].date
                         => videos[i].lecture < videos[j].lecture )
    /\ { videos[i].lecture : i \in 1..Len(videos) } = Succeeded

\* a collection that dropped one lesson and moved a later lesson in front of
\* an earlier one
C35_Witness ==
  /\ cpc = "done" /\ course.cls = "videos.EchoCloudVideos"
  /\ Len(videos) = 2 /\ Len(course.videos_json) = 3
  /\ videos[1].lecture > videos[2].lecture
  /\ StrLess(videos[1].date, videos[2].date)

\* YYYY-MM-DD
IsDateForm(d) ==
  /\ Len(d) = 10
  /\ d[5] = "-" /\ d[8] = "-"
  /\ \A i \in { 1, 2, 3, 4, 6, 7, 9, 10 } : IsDigit(d[i])

\* no date field of the item holds a date: the key is missing, the value is
\* null or it is text that is no date
NoUsableDate(item) ==
  LET fields == IF course.cls = "EchoVideos" THEN { item.dates.start }
                ELSE IF item.multipart THEN { item.dates.group }
                ELSE { item.dates.start, item.dates.created }
  IN  \A f \in fields : f.kind # "str" \/ f.text = NoStamp

(* C36: get_date never raises and always returns a date string of the form
   YYYY-MM-DD: a lecture is not lost to its date fields, and when the metadata
   has no usable date field (missing key, null value, unparseable text, a
   multi-part group whose createdAt is null) the date is 1970-01-01. *)
C36_GetDateTotal ==
  /\ \A i \in 1..Len(videos) :
       /\ IsDateForm(videos[i].date)
       /\ ( NoUsableDate(course.videos_json[videos[i].lecture])
              => videos[i].date = Epoch )
  /\ ( course.cls = "videos.EchoCloudVideos" /\ cpc \in { "loop", "done" }
         => \A k \in Succeeded :
              k <= ci => \E i \in 1..Len(videos) : videos[i].lecture = k )

\* lectures with a null creation time, with text that is no date and of a
\* group with a null creation time were built with the date 1970-01-01, next
\* to one with a date of its own
C36_Witness ==
  /\ course.cls = "videos.EchoCloudVideos" /\ cpc = "done" /\ Len(videos) = 3
  /\ \E i \in 1..3 :
       /\ course.videos_json[videos[i].lecture].dates.created.kind = "null"
       /\ videos[i].date = Epoch
  /\ \E i \in 1..3 :
       /\ course.videos_json[videos[i].lecture].multipart
       /\ course.videos_json[videos[i].lecture].dates.group.kind = "null"
       /\ videos[i].date = Epoch
  /\ \E i \in 1..3 : videos[i].date # Epoch


(* ================= claims about the browser driver ===================== *)

(* C37: BinaryDownloader.download() makes no network download and changes no
   file when the binary is already at get_bin(); and when a run that
   downloaded returns normally, the binary is at get_bin() and the archive
   and the temporary extraction directory are gone. *)
C37_BinaryDownloadIdempotent ==
  /\ ( bpc = "returned" /\ disk0.bin # "none" => blog = << >> /\ disk = disk0 )
  /\ ( bpc = "returned" /\ blog # << >>
         => /\ disk.bin # "none"
            /\ ~disk.archive.there
            /\ ~disk.temp.there )

\* a second call that downloaded and installed the driver after a first call
\* had failed, with a bin/temp left over from before
C37_Witness ==
  /\ bpc = "returned" /\ brun = 2
  /\ blog # << >> /\ blog[1] = "wget"
  /\ disk.bin = "exec"
  /\ disk0.bin = "none" /\ (disk0.temp.there \/ disk0.archive.there)


(* ================= claims about the transcript text ==================== *)

\* the lines of the file the written paragraphs are made of
KeptLines ==
  UNION { { vtt_out.paragraphs[p][k].idx : k \in 1..Len(vtt_out.paragraphs[p]) } :
            p \in 1..Len(vtt_out.paragraphs) }

(* C38: the clean text written by convert_vtt_to_text holds no text of the
   header line of the file, of a cue-timing line (one with "-->"), of a NOTE
   line or of a purely numeric cue-index line, and every paragraph of it is
   made of at most 6 cleaned lines. *)
C38_CleanTextHasNoMetadata ==
  vpc = "written" =>
    /\ 1 \notin KeptLines
    /\ \A i \in KeptLines :
         /\ Find(vtt_lines[i], Arrow, 1) = 0
         /\ ~StartsWith(Strip(vtt_lines[i]), NoteWord)
         /\ ~IsNumeric(Strip(vtt_lines[i]))
    /\ \A p \in 1..Len(vtt_out.paragraphs) : Len(vtt_out.paragraphs[p]) <= 6
    /\ \A p \in 1..Len(vtt_out.text) : Find(vtt_out.text[p], WebVtt, 1) = 0

====
